---- MODULE Spec2Model ----
(***************************************************************************)
(* Model of the record / RRset set algebra of go.powerdns                  *)
(* (pdnstypes/shared/powerdns_types.go).                                   *)
(*                                                                         *)
(* A Go slice is a sequence, a Go map is a function from its keys, and a   *)
(* map[Record]struct{} is the set of its keys.  Go leaves the iteration    *)
(* order of a map unspecified, so every operation that builds its result   *)
(* by ranging over a map is modelled by the SET of the values it can       *)
(* return, one per iteration order; the actions pick one of them.          *)
(***************************************************************************)
EXTENDS Integers, Sequences, FiniteSets, TLC

\* Longest Records slice of an input RRset.
MaxRecords == 2
\* Longest input collection, and the most RRsets the receiver and the argument
\* hold together.
MaxRRsets == 2
MaxTotalRRsets == 3

----------------------------------------------------------------------------
\* Generic helpers for slices and maps.

\* Every order in which a Go "range" may visit the keys S of a map.
RECURSIVE Orders(_)
Orders(S) ==
    IF S = {} THEN {<<>>}
    ELSE UNION {{<<x>> \o p : p \in Orders(S \ {x})} : x \in S}

\* m[k] = v on a map.
MapPut(m, k, v) == [x \in (DOMAIN m) \cup {k} |-> IF x = k THEN v ELSE m[x]]

EmptyMap == [x \in {} |-> x]

SeqsUpTo(S, n) == UNION {[1..m -> S] : m \in 0..n}

----------------------------------------------------------------------------
\* Record and Records.

ZeroRecord == [Content |-> "", Disabled |-> FALSE, SetPtr |-> FALSE]

\* Record.Copy
RecordCopy(r) == r

\* make(Records, n): n zero-valued records.
MakeRecords(n) == [i \in 1..n |-> ZeroRecord]

\* Records.ToMap: the set of the (copied) record values.
RecordsToMap(r) == {RecordCopy(r[i]) : i \in 1..Len(r)}

\* Records.Difference ranging over the slice r instead of the map "us".
RecordsDifferenceOfSlice(r, b) ==
    {SelectSeq(r, LAMBDA v : v \notin RecordsToMap(b))}

\* Records.Difference: ranges over the map "us".
RecordsDifference(r, b) ==
    LET us == RecordsToMap(r)
        them == RecordsToMap(b)
    IN  {[i \in 1..Len(ord) |-> RecordCopy(ord[i])] :
            ord \in Orders({k \in us : k \notin them})}

\* Records.Intersection ranging over the slice r instead of the map "us".
RecordsIntersectionOfSlice(r, b) ==
    {SelectSeq(r, LAMBDA v : v \in RecordsToMap(b))}

\* Records.Intersection: ranges over the map "us".
RecordsIntersection(r, b) ==
    LET us == RecordsToMap(r)
        them == RecordsToMap(b)
    IN  {[i \in 1..Len(ord) |-> RecordCopy(ord[i])] :
            ord \in Orders({k \in us : k \in them})}

\* Records.Union appending the two slices instead of ranging over a map.
RecordsUnionAppended(r, b) == {r \o b}

\* Records.Union: ranges over the map "union".
RecordsUnion(r, b) ==
    LET us == RecordsToMap(r)
        them == RecordsToMap(b)
        union == us \cup them
    IN  {[i \in 1..Len(ord) |-> RecordCopy(ord[i])] : ord \in Orders(union)}

\* Records.IsSubsetOf
RecordsIsSubsetOf(r, b) == {Len(d) = 0 : d \in RecordsDifference(r, b)}

\* Records.Copy: the result starts as make(Records, len(r)) and every copied
\* record is appended to it.
RecordsCopy(r) == MakeRecords(Len(r)) \o [i \in 1..Len(r) |-> RecordCopy(r[i])]

\* Records.Equals is not part of the source files; the specification defines
\* it as Difference being empty in both directions.
RecordsEquals(r, b) ==
    {x /\ y : x \in RecordsIsSubsetOf(r, b), y \in RecordsIsSubsetOf(b, r)}

----------------------------------------------------------------------------
\* Slices and their backing arrays.  The heap is the sequence of the arrays
\* allocated so far, each as long as its capacity; a slice is a window on the
\* first len elements of one of them.  Two slices share storage when they
\* name the same array.

SliceOf(id, n) == [array |-> id, len |-> n]

\* The elements of the slice s on the heap h.
ReadSlice(h, s) == SubSeq(h[s.array], 1, s.len)

\* cap(s)
Cap(h, s) == Len(h[s.array])

\* make(Records, n): a new array of n zero-valued records.
MakeOnHeap(h, n) ==
    [heap |-> Append(h, MakeRecords(n)), slice |-> SliceOf(Len(h) + 1, n)]

\* The Go toolchain the program was built with.  Nothing in the repository
\* pins one, and the capacity append gives a grown slice depends on it:
\* "go1.17" stands for the releases up to 1.17, "go1.21" for 1.18 to 1.21,
\* "go1.22" for 1.22 and later.
VARIABLE toolchain

\* The capacity append gives the new array when one element is appended to
\* a full slice of capacity oldcap whose elements have elemsize bytes and
\* hold pointers (the runtime's growslice).  The capacity asked for is one
\* for an empty slice and twice the old capacity for a small one; from 1024
\* elements on, releases up to 1.17 add a quarter, and from 256 elements on,
\* later releases add a quarter and 192.  The slice then gets as many
\* elements as fit into the allocation: its size is rounded up to a size
\* class of the allocator, or to whole pages of 8192 bytes above the largest
\* class; from release 1.22 on, an allocation of more than 512 bytes gives
\* 8 of its bytes to a header.
GrowSlice(oldcap, elemsize) ==
    LET classes == {8, 16, 24, 32, 48, 64, 80, 96, 112, 128, 144, 160, 176, 192,
                    208, 224, 240, 256, 288, 320, 352, 384, 416, 448, 480, 512,
                    576, 640, 704, 768, 896, 1024, 1152, 1280, 1408, 1536, 1792,
                    2048, 2304, 2688, 3072, 3200, 3456, 4096, 4864, 5120, 5376,
                    6144, 6528, 6784, 6912, 8192, 9472, 9728, 10240, 10880,
                    12288, 13568, 14336, 16384, 18432, 19072, 20480, 21760,
                    24576, 27264, 28672, 32768}
        threshold == IF toolchain = "go1.17" THEN 1024 ELSE 256
        newcap == IF oldcap = 0 THEN 1
                  ELSE IF oldcap < threshold THEN 2 * oldcap
                  ELSE IF toolchain = "go1.17" THEN oldcap + oldcap \div 4
                  ELSE oldcap + (oldcap + 768) \div 4
        size == newcap * elemsize
        header == IF toolchain = "go1.22" /\ size > 512 /\ size <= 32760
                  THEN 8 ELSE 0
        reqSize == size + header
        capmem == IF reqSize <= 32768
                  THEN (CHOOSE c \in classes :
                          c >= reqSize /\ \A d \in classes : d >= reqSize => c <= d)
                       - header
                  ELSE ((size + 8191) \div 8192) * 8192
    IN  capmem \div elemsize

\* append(s, v): in place while the capacity lasts, else into a new array of
\* the capacity growslice gives it, which starts with the elements of s.  A
\* Record takes 24 bytes (a string and two bools).
AppendOnHeap(h, s, v) ==
    IF s.len < Cap(h, s)
    THEN [heap |-> [h EXCEPT ![s.array][s.len + 1] = v],
          slice |-> SliceOf(s.array, s.len + 1)]
    ELSE
        LET newcap == GrowSlice(Cap(h, s), 24)
            grown == ReadSlice(h, s) \o <<v>> \o MakeRecords(newcap - s.len - 1)
        IN  [heap |-> Append(h, grown), slice |-> SliceOf(Len(h) + 1, s.len + 1)]

\* Records.Copy returning its receiver: the copy and the original share
\* their array.
RecordsCopyShared(h, s) == [heap |-> h, slice |-> s]

\* The loop of Records.Copy: result = append(result, v.Copy()) for each
\* element of the receiver s; st is the heap and the slice result.
RECURSIVE RecordsCopyLoop(_, _, _)
RecordsCopyLoop(st, s, i) ==
    IF i > s.len THEN st
    ELSE RecordsCopyLoop(
            AppendOnHeap(st.heap, st.slice, RecordCopy(st.heap[s.array][i])),
            s, i + 1)

\* Records.Copy on the heap: result := make(Records, len(r)), then the loop.
RecordsCopyOnHeap(h, s) == RecordsCopyLoop(MakeOnHeap(h, s.len), s, 1)

\* RRset.Copy on the heap, for an RRset x whose Records is a slice:
\* copy := *rr shares the array of rr.Records until copy.Records is replaced
\* by rr.Records.Copy().
RRsetCopyOnHeap(h, x) ==
    LET copy == x
        c == RecordsCopyOnHeap(h, x.Records)
    IN  [heap |-> c.heap, rrset |-> [copy EXCEPT !.Records = c.slice]]

\* s[i].f = v
SetField(h, s, i, f, v) == [h EXCEPT ![s.array][i] = [@ EXCEPT ![f] = v]]

----------------------------------------------------------------------------
\* RRset.

ZeroRRset == [Name |-> "", Type |-> "", TTL |-> 0, Records |-> <<>>,
              ChangeType |-> ""]

\* RRset.UniqueName
UniqueName(rr) == [Name |-> rr.Name, Type |-> rr.Type]

\* RRset.Copy
RRsetCopy(rr) == [rr EXCEPT !.Records = RecordsCopy(rr.Records)]

\* RRset.Merge starting from the argument: result := b.
RRsetMergeKeepArgument(rr, b) ==
    {[b EXCEPT !.Records = u] : u \in RecordsUnion(rr.Records, b.Records)}

\* RRset.Merge: result := *rr, result.Records = rr.Records.Union(b.Records).
RRsetMerge(rr, b) ==
    {[rr EXCEPT !.Records = u] : u \in RecordsUnion(rr.Records, b.Records)}

----------------------------------------------------------------------------
\* RRsets.

\* make(RRsets, n): n zero-valued RRsets.
MakeRRsets(n) == [i \in 1..n |-> ZeroRRset]

\* RRsets.Copy: the result starts as make(RRsets, len(rrs)) and every copied
\* RRset is appended to it.
RRsetsCopy(rrs) == MakeRRsets(Len(rrs)) \o [i \in 1..Len(rrs) |-> RRsetCopy(rrs[i])]

\* ToMapLoop keeping the entry a key already has (first seen wins).
RECURSIVE ToMapLoopFirstSeen(_, _, _)
ToMapLoopFirstSeen(rrs, i, r) ==
    IF i > Len(rrs) THEN r
    ELSE IF UniqueName(rrs[i]) \in DOMAIN r
    THEN ToMapLoopFirstSeen(rrs, i + 1, r)
    ELSE ToMapLoopFirstSeen(rrs, i + 1,
                            MapPut(r, UniqueName(rrs[i]), RRsetCopy(rrs[i])))

\* The loop of RRsets.ToMap: r[v.UniqueName()] = v.Copy() for each v in order.
RECURSIVE ToMapLoop(_, _, _)
ToMapLoop(rrs, i, r) ==
    IF i > Len(rrs) THEN r
    ELSE ToMapLoop(rrs, i + 1, MapPut(r, UniqueName(rrs[i]), RRsetCopy(rrs[i])))

\* RRsets.ToMap
RRsetsToMap(rrs) == ToMapLoop(rrs, 1, EmptyMap)

\* The loop of RRsets.Difference over the keys of "us" in the order ord.
RECURSIVE DifferenceLoop(_, _, _, _, _)
DifferenceLoop(us, them, ord, i, result) ==
    IF i > Len(ord) THEN result
    ELSE
        LET k == ord[i]
            v == us[k]
        IN  IF k \notin DOMAIN them
            THEN DifferenceLoop(us, them, ord, i + 1, Append(result, RRsetCopy(v)))
            ELSE
                LET thereV == them[k]
                    recordDifferences == RecordsDifference(v.Records, thereV.Records)
                    hasDifferences ==
                        \/ \E d \in recordDifferences : Len(d) > 0
                        \/ v.TTL # thereV.TTL
                        \/ v.ChangeType # thereV.ChangeType
                IN  \* diffrr (v.Copy() with Records = recordDifferences) is built
                    \* and dropped: the RRset appended is v.Copy().
                    IF hasDifferences
                    THEN DifferenceLoop(us, them, ord, i + 1, Append(result, RRsetCopy(v)))
                    ELSE DifferenceLoop(us, them, ord, i + 1, result)

\* RRsets.Difference with the first RRset of a key kept for the receiver.
RRsetsDifferenceFirstSeenReceiver(rrs, b) ==
    LET us == ToMapLoopFirstSeen(rrs, 1, EmptyMap)
        them == RRsetsToMap(b)
    IN  {DifferenceLoop(us, them, ord, 1, <<>>) : ord \in Orders(DOMAIN us)}

\* RRsets.Difference
RRsetsDifference(rrs, b) ==
    LET us == RRsetsToMap(rrs)
        them == RRsetsToMap(b)
    IN  {DifferenceLoop(us, them, ord, 1, <<>>) : ord \in Orders(DOMAIN us)}

\* RRsets.IsSubsetOf
RRsetsIsSubsetOf(rrs, b) == {Len(d) = 0 : d \in RRsetsDifference(rrs, b)}

\* IntersectionLoop without the TTL comparison.
RECURSIVE IntersectionLoopAnyTTL(_, _, _, _, _)
IntersectionLoopAnyTTL(us, them, ord, i, result) ==
    IF i > Len(ord) THEN result
    ELSE
        LET k == ord[i]
            v == us[k]
        IN  IF k \in DOMAIN them /\ v.ChangeType = them[k].ChangeType
            THEN IntersectionLoopAnyTTL(us, them, ord, i + 1,
                                        Append(result, RRsetCopy(v)))
            ELSE IntersectionLoopAnyTTL(us, them, ord, i + 1, result)

\* The loop of RRsets.Intersection over the keys of "us" in the order ord.
RECURSIVE IntersectionLoop(_, _, _, _, _)
IntersectionLoop(us, them, ord, i, result) ==
    IF i > Len(ord) THEN result
    ELSE
        LET k == ord[i]
            v == us[k]
        IN  IF k \in DOMAIN them
            THEN
                LET thereV == them[k]
                IN  IF v.TTL # thereV.TTL
                    THEN IntersectionLoop(us, them, ord, i + 1, result)
                    ELSE IF v.ChangeType # thereV.ChangeType
                    THEN IntersectionLoop(us, them, ord, i + 1, result)
                    ELSE
                        \* intersectingRecords is assigned to the loop variable v
                        \* after intersectingRr := v.Copy() was taken, so the
                        \* RRset appended carries the records of v.
                        LET intersectingRr == RRsetCopy(v)
                        IN  IntersectionLoop(us, them, ord, i + 1,
                                             Append(result, intersectingRr))
            ELSE IntersectionLoop(us, them, ord, i + 1, result)

\* RRsets.Intersection
RRsetsIntersection(rrs, b) ==
    LET us == RRsetsToMap(rrs)
        them == RRsetsToMap(b)
    IN  {IntersectionLoop(us, them, ord, 1, <<>>) : ord \in Orders(DOMAIN us)}

\* First loop of RRsets.Merge ("Copy our side"): union[v.UniqueName()] = v.
RECURSIVE MergeUsLoop(_, _, _)
MergeUsLoop(rrs, i, union) ==
    IF i > Len(rrs) THEN union
    ELSE MergeUsLoop(rrs, i + 1, MapPut(union, UniqueName(rrs[i]), rrs[i]))

\* One pass of the second loop of RRsets.Merge on the map union: the maps it
\* can leave (Records.Union returns its records in any order).
MergeThemStep(union, v) ==
    LET un == UniqueName(v)
    IN  IF un \notin DOMAIN union
        THEN {MapPut(union, un, v)}
        ELSE {MapPut(union, un, [union[un] EXCEPT !.Records = u]) :
                u \in RecordsUnion(union[un].Records, v.Records)}

\* Second loop of RRsets.Merge ("Copy there side") from each map of unions.
RECURSIVE MergeThemLoop(_, _, _)
MergeThemLoop(b, i, unions) ==
    IF i > Len(b) THEN unions
    ELSE MergeThemLoop(b, i + 1, UNION {MergeThemStep(u, b[i]) : u \in unions})

\* RRsets.Merge: the result starts as make(RRsets, len(union)) and every value
\* of the map is appended to it.
RRsetsMerge(rrs, b) ==
    LET unions == MergeThemLoop(b, 1, {MergeUsLoop(rrs, 1, EmptyMap)})
    IN  UNION {{MakeRRsets(Cardinality(DOMAIN union))
                    \o [i \in 1..Len(ord) |-> union[ord[i]]] :
                  ord \in Orders(DOMAIN union)} : union \in unions}

\* RRsets.Equals is not part of the source files; the specification defines
\* it as Difference being empty in both directions.
RRsetsEquals(rrs, b) ==
    {x /\ y : x \in RRsetsIsSubsetOf(rrs, b), y \in RRsetsIsSubsetOf(b, rrs)}

----------------------------------------------------------------------------
\* The operations on the heap.  A collection is a slice of an array of
\* RRsets, and the Records of each RRset is a slice of an array of records;
\* an operation takes the heap and the slices and returns every pair of the
\* heap it may leave and the value it returns.  The arrays of the maps and
\* of the copies an operation drops before it returns are left out: nothing
\* that is given to the operation or returned by it names them.

\* The zero-valued RRset of an array on the heap: its Records is the nil
\* slice, the slice of no array.
ZeroRRsetOnHeap == [ZeroRRset EXCEPT !.Records = SliceOf(0, 0)]

\* The records of the slice s.
ReadRecords(h, s) == IF s.array = 0 THEN <<>> ELSE ReadSlice(h, s)

\* The RRsets of the slice s, each with its records.
ReadRRsets(h, s) ==
    IF s.array = 0 THEN <<>>
    ELSE [i \in 1..s.len |->
            [h[s.array][i] EXCEPT !.Records = ReadRecords(h, h[s.array][i].Records)]]

\* Records{} and RRsets{}: an empty slice of no capacity.
EmptySliceOnHeap(h) == [heap |-> Append(h, <<>>), slice |-> SliceOf(Len(h) + 1, 0)]

\* make(RRsets, n): a new array of n zero-valued RRsets.
MakeRRsetsOnHeap(h, n) ==
    [heap |-> Append(h, [i \in 1..n |-> ZeroRRsetOnHeap]),
     slice |-> SliceOf(Len(h) + 1, n)]

\* append(s, v) for a slice of RRsets.  An RRset takes 80 bytes (three
\* strings, an int and a slice).
AppendRRsetOnHeap(h, s, v) ==
    IF s.len < Cap(h, s)
    THEN [heap |-> [h EXCEPT ![s.array][s.len + 1] = v],
          slice |-> SliceOf(s.array, s.len + 1)]
    ELSE
        LET newcap == GrowSlice(Cap(h, s), 80)
            grown == SubSeq(h[s.array], 1, s.len) \o <<v>>
                        \o [i \in 1..(newcap - s.len - 1) |-> ZeroRRsetOnHeap]
        IN  [heap |-> Append(h, grown), slice |-> SliceOf(Len(h) + 1, s.len + 1)]

\* results = append(results, k.Copy()) for each record of vals, from the
\* heap and the slice st.
RECURSIVE AppendRecords(_, _)
AppendRecords(st, vals) ==
    IF vals = <<>> THEN st
    ELSE AppendRecords(AppendOnHeap(st.heap, st.slice, RecordCopy(Head(vals))),
                       Tail(vals))

\* The Records an operation returns: results := Records{}, then the appends.
StoreRecords(h, vals) ==
    LET st == AppendRecords(EmptySliceOnHeap(h), vals)
    IN  [heap |-> st.heap, result |-> st.slice]

\* Records.Difference returning at the first key it visits.
RecordsDifferenceFirstVisited(h, s, t) ==
    {StoreRecords(h, SubSeq(d, 1, IF Len(d) > 0 THEN 1 ELSE 0)) :
        d \in RecordsDifference(ReadRecords(h, s), ReadRecords(h, t))}

\* Records.Difference
RecordsDifferenceOnHeap(h, s, t) ==
    {StoreRecords(h, d) : d \in RecordsDifference(ReadRecords(h, s), ReadRecords(h, t))}

\* Records.Intersection
RecordsIntersectionOnHeap(h, s, t) ==
    {StoreRecords(h, d) : d \in RecordsIntersection(ReadRecords(h, s), ReadRecords(h, t))}

\* Records.Union
RecordsUnionOnHeap(h, s, t) ==
    {StoreRecords(h, d) : d \in RecordsUnion(ReadRecords(h, s), ReadRecords(h, t))}

\* RRset.Merge: result := *rr; result.Records = rr.Records.Union(b.Records)
RRsetMergeOnHeap(h, x, y) ==
    {[heap |-> st.heap, result |-> [x EXCEPT !.Records = st.result]] :
        st \in RecordsUnionOnHeap(h, x.Records, y.Records)}

\* The loop of RRsets.ToMap: r[v.UniqueName()] = v.Copy() for each RRset
\* of the slice s; st is the heap and the map r.
RECURSIVE ToMapLoopOnHeap(_, _, _)
ToMapLoopOnHeap(st, s, i) ==
    IF i > s.len THEN st
    ELSE LET v == st.heap[s.array][i]
             c == RRsetCopyOnHeap(st.heap, v)
         IN  ToMapLoopOnHeap(
                [heap |-> c.heap,
                 result |-> MapPut(st.result, UniqueName(v), c.rrset)],
                s, i + 1)

\* The loop of RRsets.Difference over the keys of "us" in the order ord, on
\* the maps us and them of RRsets whose Records are slices; sts holds every
\* heap and slice result.  Each v.Copy() allocates, the one of diffrr too.
RECURSIVE DifferenceLoopOnHeap(_, _, _, _)
DifferenceLoopOnHeap(sts, us, them, ord) ==
    IF ord = <<>> THEN sts
    ELSE
        LET k == Head(ord)
            v == us[k]
        IN  DifferenceLoopOnHeap(
                UNION {IF k \notin DOMAIN them
                       THEN LET c == RRsetCopyOnHeap(st.heap, v)
                            IN  {AppendRRsetOnHeap(c.heap, st.slice, c.rrset)}
                       ELSE
                           LET thereV == them[k]
                           IN  {LET recordDifferences == rd.result
                                    hasDifferences ==
                                        \/ recordDifferences.len > 0
                                        \/ v.TTL # thereV.TTL
                                        \/ v.ChangeType # thereV.ChangeType
                                    diffrr == RRsetCopyOnHeap(rd.heap, v)
                                    c == RRsetCopyOnHeap(diffrr.heap, v)
                                IN  IF hasDifferences
                                    THEN AppendRRsetOnHeap(c.heap, st.slice, c.rrset)
                                    ELSE [heap |-> rd.heap, slice |-> st.slice] :
                                  rd \in RecordsDifferenceOnHeap(st.heap, v.Records,
                                                                 thereV.Records)} :
                       st \in sts},
                us, them, Tail(ord))

\* RRsets.Difference with result := rrs[:0], the receiver's array reused.
RRsetsDifferenceInPlace(h, s, t) ==
    LET us == ToMapLoopOnHeap([heap |-> h, result |-> EmptyMap], s, 1)
        them == ToMapLoopOnHeap([heap |-> us.heap, result |-> EmptyMap], t, 1)
    IN  UNION {{[heap |-> st.heap, result |-> st.slice] :
                    st \in DifferenceLoopOnHeap(
                              {[heap |-> them.heap, slice |-> SliceOf(s.array, 0)]},
                              us.result, them.result, ord)} :
                ord \in Orders(DOMAIN us.result)}

\* RRsets.Difference: us := rrs.ToMap(); them := b.ToMap();
\* result := RRsets{}; then the loop.
RRsetsDifferenceOnHeap(h, s, t) ==
    LET us == ToMapLoopOnHeap([heap |-> h, result |-> EmptyMap], s, 1)
        them == ToMapLoopOnHeap([heap |-> us.heap, result |-> EmptyMap], t, 1)
    IN  UNION {{[heap |-> st.heap, result |-> st.slice] :
                    st \in DifferenceLoopOnHeap({EmptySliceOnHeap(them.heap)},
                                                us.result, them.result, ord)} :
                ord \in Orders(DOMAIN us.result)}

\* The loop of RRsets.Intersection over the keys of "us" in the order ord.
\* intersectingRecords is assigned to the loop variable v after
\* intersectingRr := v.Copy() was taken.
RECURSIVE IntersectionLoopOnHeap(_, _, _, _)
IntersectionLoopOnHeap(sts, us, them, ord) ==
    IF ord = <<>> THEN sts
    ELSE
        LET k == Head(ord)
            v == us[k]
        IN  IntersectionLoopOnHeap(
                UNION {IF k \in DOMAIN them /\ v.TTL = them[k].TTL
                            /\ v.ChangeType = them[k].ChangeType
                       THEN {LET intersectingRr ==
                                    RRsetCopyOnHeap(intersectingRecords.heap, v)
                             IN  AppendRRsetOnHeap(intersectingRr.heap, st.slice,
                                                   intersectingRr.rrset) :
                                intersectingRecords \in
                                    RecordsIntersectionOnHeap(st.heap, v.Records,
                                                              them[k].Records)}
                       ELSE {st} :
                       st \in sts},
                us, them, Tail(ord))

\* RRsets.Intersection: us := rrs.ToMap(); them := b.ToMap();
\* result := RRsets{}; then the loop.
RRsetsIntersectionOnHeap(h, s, t) ==
    LET us == ToMapLoopOnHeap([heap |-> h, result |-> EmptyMap], s, 1)
        them == ToMapLoopOnHeap([heap |-> us.heap, result |-> EmptyMap], t, 1)
    IN  UNION {{[heap |-> st.heap, result |-> st.slice] :
                    st \in IntersectionLoopOnHeap({EmptySliceOnHeap(them.heap)},
                                                  us.result, them.result, ord)} :
                ord \in Orders(DOMAIN us.result)}

\* The loop of RRsets.Copy: result = append(result, rr.Copy()).
RECURSIVE RRsetsCopyLoopOnHeap(_, _, _)
RRsetsCopyLoopOnHeap(st, s, i) ==
    IF i > s.len THEN st
    ELSE LET c == RRsetCopyOnHeap(st.heap, st.heap[s.array][i])
         IN  RRsetsCopyLoopOnHeap(AppendRRsetOnHeap(c.heap, st.slice, c.rrset),
                                  s, i + 1)

\* RRsets.Copy: result := make(RRsets, len(rrs)), then the loop.
RRsetsCopyOnHeap(h, s) ==
    LET st == RRsetsCopyLoopOnHeap(MakeRRsetsOnHeap(h, s.len), s, 1)
    IN  {[heap |-> st.heap, result |-> st.slice]}

\* The first loop of RRsets.Merge: union[v.UniqueName()] = v for each RRset
\* of the receiver s; v holds the Records slice of the RRset, not a copy.
RECURSIVE MergeUsLoopOnHeap(_, _, _, _)
MergeUsLoopOnHeap(h, union, s, i) ==
    IF i > s.len THEN union
    ELSE MergeUsLoopOnHeap(h, MapPut(union, UniqueName(h[s.array][i]), h[s.array][i]),
                           s, i + 1)

\* The second loop of RRsets.Merge over the argument t: a key not found is
\* stored as it is; else the Records of the entry become the Union of the
\* Records of the entry and of v.  sts holds every heap and map union.
RECURSIVE MergeThemLoopOnHeap(_, _, _)
MergeThemLoopOnHeap(sts, t, i) ==
    IF i > t.len THEN sts
    ELSE MergeThemLoopOnHeap(
            UNION {LET v == st.heap[t.array][i]
                       un == UniqueName(v)
                   IN  IF un \notin DOMAIN st.union
                       THEN {[heap |-> st.heap, union |-> MapPut(st.union, un, v)]}
                       ELSE {[heap |-> u.heap,
                              union |-> MapPut(st.union, un,
                                         [st.union[un] EXCEPT !.Records = u.result])] :
                                u \in RecordsUnionOnHeap(st.heap, st.union[un].Records,
                                                         v.Records)} :
                   st \in sts},
            t, i + 1)

\* result = append(result, v) for the entries of union in the order ord.
RECURSIVE MergeAppendLoopOnHeap(_, _, _)
MergeAppendLoopOnHeap(st, union, ord) ==
    IF ord = <<>> THEN st
    ELSE MergeAppendLoopOnHeap(AppendRRsetOnHeap(st.heap, st.slice, union[Head(ord)]),
                               union, Tail(ord))

\* RRsets.Merge: result := make(RRsets, len(union)), then the appends.
RRsetsMergeOnHeap(h, s, t) ==
    LET sts == MergeThemLoopOnHeap(
                  {[heap |-> h, union |-> MergeUsLoopOnHeap(h, EmptyMap, s, 1)]}, t, 1)
    IN  UNION {{LET e == MergeAppendLoopOnHeap(
                            MakeRRsetsOnHeap(st.heap, Cardinality(DOMAIN st.union)),
                            st.union, ord)
                IN  [heap |-> e.heap, result |-> e.slice] :
                    ord \in Orders(DOMAIN st.union)} : st \in sts}

\* A collection given to an operation: each Records in an array of its own,
\* then the array of the RRsets, each array with one element of spare
\* capacity.
LayOut(h, vals) ==
    LET n == Len(vals)
    IN  [heap |-> h \o [i \in 1..n |-> vals[i].Records \o <<ZeroRecord>>]
                    \o <<[i \in 1..n |->
                            [vals[i] EXCEPT !.Records =
                                SliceOf(Len(h) + i, Len(vals[i].Records))]]
                          \o <<ZeroRRsetOnHeap>>>>,
         slice |-> SliceOf(Len(h) + n + 1, n)]

\* A PatchRRSet embeds an RRset and adds the ChangeType of the patch.

\* NewPatchRRSets with its result made with a length, as the copies are.
NewPatchRRSetsPadded(rrsets, changetype) ==
    [i \in 1..Len(rrsets) |-> [RRset |-> ZeroRRset, ChangeType |-> ""]]
        \o [i \in 1..Len(rrsets) |->
                [RRset |-> RRsetCopy(rrsets[i]), ChangeType |-> changetype]]

\* authoritative.NewPatchRRSets: the result is made empty with a capacity,
\* and one PatchRRSet is appended for each RRset.
NewPatchRRSets(rrsets, changetype) ==
    [i \in 1..Len(rrsets) |->
        [RRset |-> RRsetCopy(rrsets[i]), ChangeType |-> changetype]]

\* PatchRRSet.CopyToRRSet
CopyToRRSet(prr) == RRsetCopy(prr.RRset)

\* PatchRRSets.CopyToRRSets
CopyToRRSets(prrs) == [i \in 1..Len(prrs) |-> CopyToRRSet(prrs[i])]

----------------------------------------------------------------------------
\* Zones.  A zone of the authoritative or the recursor package embeds the
\* shared Zone as its field Zone; a ZoneResponse embeds the authoritative Zone
\* and adds the serials.

ZeroSharedZone == [Name |-> "", Type |-> "", URL |-> "", RRsets |-> <<>>]

\* The zero value of authoritative.Zone.
ZeroZone ==
    [Zone |-> ZeroSharedZone, Kind |-> "", DNSsec |-> FALSE, SoaEdit |-> "",
     SoaEditAPI |-> "", Account |-> ""]

\* shared.Zone.HeaderEquals
SharedZoneHeaderEquals(z, a) == z.Name = a.Name

\* shared.Zone.Equals is not part of the source files; the specification
\* defines it as HeaderEquals and RRsets.Equals.
SharedZoneEquals(z, a) ==
    {SharedZoneHeaderEquals(z, a) /\ e : e \in RRsetsEquals(z.RRsets, a.RRsets)}

\* authoritative.Zone.HeaderEquals comparing the embedded shared Zone only.
AuthoritativeZoneHeaderEqualsNameOnly(z, a) ==
    SharedZoneHeaderEquals(z.Zone, a.Zone)

\* authoritative.Zone.HeaderEquals
AuthoritativeZoneHeaderEquals(z, a) ==
    /\ SharedZoneHeaderEquals(z.Zone, a.Zone)
    /\ z.Kind = a.Kind
    /\ z.DNSsec = a.DNSsec
    /\ z.SoaEdit = a.SoaEdit
    /\ z.SoaEditAPI = a.SoaEditAPI
    /\ z.Account = a.Account

\* authoritative.Zone.Equals without the call of HeaderEquals.
AuthoritativeZoneEqualsSharedOnly(z, a) == SharedZoneEquals(z.Zone, a.Zone)

\* authoritative.Zone.Equals
AuthoritativeZoneEquals(z, a) ==
    {e /\ AuthoritativeZoneHeaderEquals(z, a) : e \in SharedZoneEquals(z.Zone, a.Zone)}

\* shared.Zone.Copy is not part of the source files; the specification
\* defines it as the header fields by value and RRsets.Copy of the RRsets.
SharedZoneCopy(x) == [x EXCEPT !.RRsets = RRsetsCopy(x.RRsets)]

\* authoritative.Zone.Copy: r := *z; r.Zone = z.Zone.Copy()
AuthoritativeZoneCopy(x) == [x EXCEPT !.Zone = SharedZoneCopy(x.Zone)]

\* A []string is nil or allocated; Elems are its elements (none when nil).
NilStrings == [IsNil |-> TRUE, Elems |-> <<>>]
Strings(s) == [IsNil |-> FALSE, Elems |-> s]

\* reflect.DeepEqual on two []string: a nil slice and an allocated one are
\* never deeply equal; two allocated ones are when they have the same
\* length and the same string at each position.
DeepEqual(x, y) ==
    /\ x.IsNil = y.IsNil
    /\ Len(x.Elems) = Len(y.Elems)
    /\ \A i \in 1..Len(x.Elems) : x.Elems[i] = y.Elems[i]

\* recursor.Zone.HeaderEquals
RecursorZoneHeaderEquals(z, a) ==
    /\ SharedZoneHeaderEquals(z.Zone, a.Zone)
    /\ DeepEqual(z.Servers, a.Servers)
    /\ z.RecursionDesired = a.RecursionDesired

----------------------------------------------------------------------------
\* The clients: errors, URLs, JSON, and DoRequest of Client and of the older
\* PowerDNSClient.

\* A nil error, a package-level error value, errwrap.Wrap(outer, inner), the
\* struct ErrClientServerResponseUnreadable{serverResponse}, a shared.Error
\* (the decoded error envelope), and an error of another package.
NilError == [Type |-> "nil"]
Wrap(outer, inner) == [Type |-> "wrapped", Outer |-> outer, Inner |-> inner]
ErrClientServerResponseUnreadable(raw) ==
    [Type |-> "ErrClientServerResponseUnreadable", serverResponse |-> raw]
SharedError(message) == [Type |-> "shared.Error", Message |-> message]

ErrClientSubPathError == [Type |-> "sentinel", Name |-> "ErrClientSubPathError"]
ErrClientRequestParsingError == [Type |-> "sentinel", Name |-> "ErrClientRequestParsingError"]
ErrClientRequestIsAbs == [Type |-> "sentinel", Name |-> "ErrClientRequestIsAbs"]
ErrClientRequestFailed == [Type |-> "sentinel", Name |-> "ErrClientRequestFailed"]
ErrClientServerUnknownStatus == [Type |-> "sentinel", Name |-> "ErrClientServerUnknownStatus"]
ErrClientServerResponse == [Type |-> "sentinel", Name |-> "ErrClientServerResponse"]

\* url.Parse on the sub-paths of the calls: a relative path, an absolute URI
\* (it has a scheme), and a string with an invalid escape.
ParseURL(str) ==
    CASE str = "zones" -> [Err |-> FALSE, Scheme |-> "", Path |-> "zones"]
      [] str = "zones/example.com." ->
            [Err |-> FALSE, Scheme |-> "", Path |-> "zones/example.com."]
      [] str = "http://example.org/zones" ->
            [Err |-> FALSE, Scheme |-> "http", Path |-> "/zones"]
      [] str = "%zz" -> [Err |-> TRUE, Scheme |-> "", Path |-> ""]

\* url.URL.IsAbs
IsAbs(u) == u.Scheme # ""

\* Client.resolveRequestPath: the endpoint, the API path, the server path and
\* the sub-path, as the list of the references resolved.
ResolveRequestPath(u) ==
    <<"http://localhost:8081/", "api/v1/", "servers/localhost/", u.Path>>

\* json.Marshal on a request value: nil and a zone request are encoded, a
\* value of a type JSON does not support is refused.
JSONMarshal(v) ==
    CASE v = "nil" -> [Err |-> FALSE, Body |-> "null"]
      [] v = "zone" -> [Err |-> FALSE, Body |-> "{\"name\": \"example.com.\"}"]
      [] v = "unsupported" -> [Err |-> TRUE, Body |-> ""]

\* net/http validMethod: a method, given as the list of its bytes, is valid
\* when it is not empty and each byte is a token character of RFC 7230: a
\* letter, a digit or one of !#$%&'*+-.^_`|~.
ValidMethod(method) ==
    LET tchar == (65..90) \cup (97..122) \cup (48..57)
                    \cup {33, 35, 36, 37, 38, 39, 42, 43, 45, 46, 94, 95, 96, 124, 126}
    IN  Len(method) > 0 /\ \A i \in 1..Len(method) : method[i] \in tchar

\* http.NewRequest(method, url, body): an empty method stands for GET (the
\* bytes 71, 69, 84), and a method that is not valid is refused.
NewRequest(method, url, body) ==
    LET m == IF method = <<>> THEN <<71, 69, 84>> ELSE method
    IN  IF ~ValidMethod(m) THEN [Err |-> TRUE, Req |-> <<>>]
        ELSE [Err |-> FALSE,
              Req |-> <<[Method |-> m, URL |-> url, Body |-> body]>>]

\* The JSON text of a response body: whether it is well-formed, whether its
\* top-level value is an object, and the members of the object (strings and
\* numbers, by their type and value).
ParseJSON(raw) ==
    CASE raw = "" -> [Syntax |-> FALSE, Object |-> FALSE, Members |-> EmptyMap]
      [] raw = "not json" -> [Syntax |-> FALSE, Object |-> FALSE, Members |-> EmptyMap]
      [] raw = "[]" -> [Syntax |-> TRUE, Object |-> FALSE, Members |-> EmptyMap]
      [] raw = "{}" -> [Syntax |-> TRUE, Object |-> TRUE, Members |-> EmptyMap]
      [] raw = "{\"error\": \"Not Found\"}" ->
            [Syntax |-> TRUE, Object |-> TRUE,
             Members |-> MapPut(EmptyMap, "error", [Type |-> "string", Val |-> "Not Found"])]
      [] raw = "{\"error\": \"Conflict\", \"errors\": 7}" ->
            [Syntax |-> TRUE, Object |-> TRUE,
             Members |-> MapPut(MapPut(EmptyMap, "error", [Type |-> "string", Val |-> "Conflict"]),
                               "errors", [Type |-> "number", Val |-> 7])]
      [] raw = "{\"name\": \"example.com.\", \"serial\": 2018103101}" ->
            [Syntax |-> TRUE, Object |-> TRUE,
             Members |-> MapPut(MapPut(EmptyMap, "name", [Type |-> "string", Val |-> "example.com."]),
                               "serial", [Type |-> "number", Val |-> 2018103101])]
      [] raw = "{\"name\": \"example.com.\", \"serial\": \"x\"}" ->
            [Syntax |-> TRUE, Object |-> TRUE,
             Members |-> MapPut(MapPut(EmptyMap, "name", [Type |-> "string", Val |-> "example.com."]),
                               "serial", [Type |-> "string", Val |-> "x"])]

\* The member name of the JSON object j has the type ty.
HasMember(j, name, ty) == name \in DOMAIN j.Members /\ j.Members[name].Type = ty

\* json.Unmarshal(raw, &responseErr) on a shared.Error v: text that is not
\* well-formed, or is not an object, leaves v alone and is an error; else
\* each member of a fitting type is stored, members the struct does not have
\* are skipped, and a member of an unfitting type ("errors" is an array) is
\* skipped and is an error.
UnmarshalError(raw, v) ==
    LET j == ParseJSON(raw)
    IN  IF ~j.Syntax \/ ~j.Object THEN [Err |-> TRUE, Value |-> v]
        ELSE [Err |-> \/ ("error" \in DOMAIN j.Members /\ ~HasMember(j, "error", "string"))
                      \/ ("errors" \in DOMAIN j.Members /\ ~HasMember(j, "errors", "array")),
              Value |-> IF HasMember(j, "error", "string")
                        THEN SharedError(j.Members["error"].Val)
                        ELSE v]

\* json.Unmarshal(raw, responseType) on the zone response t the target
\* points to, in the same way.
UnmarshalZoneResponse(raw, t) ==
    LET j == ParseJSON(raw)
    IN  IF ~j.Syntax \/ ~j.Object THEN [Err |-> TRUE, Value |-> t]
        ELSE [Err |-> \/ ("name" \in DOMAIN j.Members /\ ~HasMember(j, "name", "string"))
                      \/ ("serial" \in DOMAIN j.Members /\ ~HasMember(j, "serial", "number")),
              Value |-> [Name |-> IF HasMember(j, "name", "string")
                                  THEN j.Members["name"].Val ELSE t.Name,
                         Serial |-> IF HasMember(j, "serial", "number")
                                    THEN j.Members["serial"].Val ELSE t.Serial]]

\* The status test of DoRequest with 3xx taken as success.
IsNotSuccessOver399(status) == status < 200 \/ status > 399

\* resp.StatusCode < 200 || resp.StatusCode > 299
IsNotSuccess(status) == status < 200 \/ status > 299

\* 400 <= resp.StatusCode && resp.StatusCode <= 599
IsReportedFailure(status) == 400 <= status /\ status <= 599

\* Client.DoRequest up to the call of p.cli.Do: the error it returns
\* early, or nil and the request it hands to the HTTP client.
BuildRequest(c) ==
    LET subPath == ParseURL(c.subPathStr)
    IN  IF subPath.Err
        THEN [err |-> Wrap(ErrClientSubPathError, [Type |-> "external", Package |-> "net/url"]),
              sent |-> <<>>]
        ELSE IF IsAbs(subPath)
        THEN [err |-> ErrClientRequestIsAbs, sent |-> <<>>]
        ELSE
            LET requestPath == ResolveRequestPath(subPath)
                requestBody == JSONMarshal(c.requestType)
            IN  IF requestBody.Err
                THEN [err |-> Wrap(ErrClientRequestParsingError,
                                   [Type |-> "external", Package |-> "encoding/json"]),
                      sent |-> <<>>]
                ELSE
                    LET httpReq == NewRequest(c.method, requestPath, requestBody.Body)
                    IN  IF httpReq.Err
                        THEN [err |-> Wrap(ErrClientRequestParsingError,
                                           [Type |-> "external", Package |-> "net/http"]),
                              sent |-> <<>>]
                        ELSE [err |-> NilError,
                              sent |-> <<[ContentType |-> "application/json",
                                          Accept |-> "application/json"] @@ httpReq.Req[1]>>]

\* The part of Client.DoRequest after the response body was read: the error
\* returned and the value of the response target.
HandleResponse(c, t) ==
    LET resp == c.server
        respBody == resp.Body
    IN  IF IsNotSuccess(resp.StatusCode)
        THEN
            IF IsReportedFailure(resp.StatusCode)
            THEN
                LET u == UnmarshalError(respBody, SharedError(""))
                    responseErr == u.Value
                    \* wrappedErr is first the unreadable error or the envelope,
                    \* and is then assigned again whatever it was.
                    wrappedErr0 ==
                        IF u.Err
                        THEN Wrap(ErrClientServerResponseUnreadable(respBody),
                                  [Type |-> "external", Package |-> "encoding/json"])
                        ELSE responseErr
                    wrappedErr == Wrap(ErrClientServerResponse, responseErr)
                IN  [err |-> wrappedErr, target |-> t]
            ELSE [err |-> ErrClientServerUnknownStatus, target |-> t]
        ELSE
            IF c.hasTarget
            THEN
                LET u == UnmarshalZoneResponse(respBody, t)
                IN  IF u.Err
                    THEN [err |-> Wrap(ErrClientServerResponseUnreadable(respBody),
                                       [Type |-> "external", Package |-> "encoding/json"]),
                          target |-> u.Value]
                    ELSE [err |-> NilError, target |-> u.Value]
            ELSE [err |-> NilError, target |-> t]

\* PowerDNSClient.DoRequest (the older client) up to the call of p.cli.Do.
\* Its sub-path is a parsed URL, and the URL of the request is the request
\* URI (the path) of the sub-path resolved against the endpoint.
PowerDNSClientBuildRequest(c) ==
    LET subPath == ParseURL(c.subPathStr)
    IN  IF IsAbs(subPath)
        THEN [err |-> ErrClientRequestIsAbs, sent |-> <<>>]
        ELSE
            LET requestPath == <<"RequestURI", "http://localhost:8081/", subPath.Path>>
                requestBody == JSONMarshal(c.requestType)
            IN  IF requestBody.Err
                THEN [err |-> Wrap(ErrClientRequestParsingError,
                                   [Type |-> "external", Package |-> "encoding/json"]),
                      sent |-> <<>>]
                ELSE
                    LET httpReq == NewRequest(c.method, requestPath, requestBody.Body)
                    IN  IF httpReq.Err
                        THEN [err |-> Wrap(ErrClientRequestParsingError,
                                           [Type |-> "external", Package |-> "net/http"]),
                              sent |-> <<>>]
                        ELSE [err |-> NilError,
                              sent |-> <<[ContentType |-> "application/json",
                                          Accept |-> "application/json"] @@ httpReq.Req[1]>>]

\* The part of PowerDNSClient.DoRequest after the response body was read.
\* Its ErrClientServerResponseUnreadable is a package-level error value; the
\* error wrapped for a decoded envelope is the variable err of the function,
\* which is nil there; and json.Unmarshal is called with the response target
\* also when it is nil, which it refuses.
PowerDNSClientHandleResponse(c, t) ==
    LET resp == c.server
        respBody == resp.Body
        unreadable == [Type |-> "sentinel", Name |-> "ErrClientServerResponseUnreadable"]
    IN  IF IsNotSuccess(resp.StatusCode)
        THEN
            IF IsReportedFailure(resp.StatusCode)
            THEN
                LET u == UnmarshalError(respBody, SharedError(""))
                IN  IF u.Err
                    THEN [err |-> Wrap(unreadable,
                                       [Type |-> "external", Package |-> "encoding/json"]),
                          target |-> t]
                    ELSE [err |-> Wrap(ErrClientServerResponse, NilError), target |-> t]
            ELSE [err |-> ErrClientServerUnknownStatus, target |-> t]
        ELSE
            LET u == IF c.hasTarget THEN UnmarshalZoneResponse(respBody, t)
                     ELSE [Err |-> TRUE, Value |-> t]
            IN  IF u.Err
                THEN [err |-> Wrap(unreadable,
                                   [Type |-> "external", Package |-> "encoding/json"]),
                      target |-> u.Value]
                ELSE [err |-> NilError, target |-> u.Value]

\* No call (its server is the one whose transport fails), and the target
\* before a call.
NoCall == [client |-> "Client", subPathStr |-> "", method |-> <<>>,
           requestType |-> "nil", hasTarget |-> FALSE,
           server |-> [Fails |-> TRUE, StatusCode |-> 0, Body |-> "",
                       ReadFails |-> FALSE]]
NilTarget == [Name |-> "", Serial |-> 0]

----------------------------------------------------------------------------
\* Inputs.

\* The record values of the inputs: a record with content, and the record
\* whose fields are all zero-valued (an empty content, not disabled).
RecordValues ==
    {ZeroRecord,
     [Content |-> "1.2.3.4", Disabled |-> FALSE, SetPtr |-> FALSE]}

Names == {"www.example.com."}
Types == {"A", "AAAA"}
Headers ==
    {[TTL |-> 300, ChangeType |-> ""],
     [TTL |-> 600, ChangeType |-> ""],
     [TTL |-> 300, ChangeType |-> "REPLACE"]}

RRsetValues ==
    {[Name |-> n, Type |-> t, TTL |-> h.TTL, Records |-> r,
      ChangeType |-> h.ChangeType] :
        n \in Names, t \in Types, h \in Headers,
        r \in SeqsUpTo(RecordValues, MaxRecords)}

----------------------------------------------------------------------------
\* The state: a receiver rrs and an argument b, the operation applied to
\* them, and what it returned.

VARIABLES rrs, b, op, result, ok, mapped

\* The state of the scenarios on one RRset and its Records: a receiver rr, an
\* argument brr, and the backing arrays of the slices of the copy scenarios.
VARIABLES rr, brr, heap

\* The state of the zone scenarios: a receiver z and an argument a.
VARIABLES z, a

\* The state of the client scenarios: the inputs of a call of DoRequest and
\* what the server will answer (call), the value the response target points
\* to, the error returned, and the HTTP requests sent.
VARIABLES call, target, err, sent

rrsetVars == <<rr, brr, heap>>
zoneVars == <<z, a>>
clientVars == <<call, target, err, sent>>

vars == <<toolchain, rrs, b, op, result, ok, mapped, rrsetVars, zoneVars, clientVars>>

\* No operation was applied yet.
NoResult == op = "none" /\ result = <<>> /\ ok = FALSE /\ mapped = EmptyMap

\* The parts of the state a family of scenarios does not use.  Scenarios
\* that follow no slice on the heap do not depend on the toolchain, and are
\* taken with one.
NoRRsets == rrs = <<>> /\ b = <<>>
NoRRset == rr = ZeroRRset /\ brr = ZeroRRset /\ heap = <<>> /\ toolchain = "go1.21"
NoZones == z = ZeroZone /\ a = ZeroZone
NoClient == call = NoCall /\ target = NilTarget /\ err = NilError /\ sent = <<>>

Init ==
    /\ \E n \in 0..MaxRRsets, m \in 0..MaxRRsets :
          /\ n + m <= MaxTotalRRsets
          /\ rrs \in [1..n -> RRsetValues]
          /\ b \in [1..m -> RRsetValues]
    /\ op = "none"
    /\ result = <<>>
    /\ ok = FALSE
    /\ mapped = EmptyMap
    /\ NoRRset
    /\ NoZones
    /\ NoClient

\* m := rrs.ToMap().  The operation reads the receiver only, so it is taken
\* once per receiver (with b empty).
ToMap ==
    /\ op = "none"
    /\ b = <<>>
    /\ op' = "ToMap"
    /\ mapped' = RRsetsToMap(rrs)
    /\ UNCHANGED <<toolchain, rrs, b, result, ok, rrsetVars, zoneVars, clientVars>>

\* result := rrs.Difference(b)
Difference ==
    /\ op = "none"
    /\ op' = "Difference"
    /\ result' \in RRsetsDifference(rrs, b)
    /\ UNCHANGED <<toolchain, rrs, b, ok, mapped, rrsetVars, zoneVars, clientVars>>

\* ok := rrs.IsSubsetOf(b)
IsSubsetOf ==
    /\ op = "none"
    /\ op' = "IsSubsetOf"
    /\ ok' \in RRsetsIsSubsetOf(rrs, b)
    /\ UNCHANGED <<toolchain, rrs, b, result, mapped, rrsetVars, zoneVars, clientVars>>

\* result := rrs.Intersection(b)
Intersection ==
    /\ op = "none"
    /\ op' = "Intersection"
    /\ result' \in RRsetsIntersection(rrs, b)
    /\ UNCHANGED <<toolchain, rrs, b, ok, mapped, rrsetVars, zoneVars, clientVars>>

\* result := rrs.Merge(b)
Merge ==
    /\ op = "none"
    /\ op' = "Merge"
    /\ result' \in RRsetsMerge(rrs, b)
    /\ UNCHANGED <<toolchain, rrs, b, ok, mapped, rrsetVars, zoneVars, clientVars>>

\* The scenario of TestRRSets: diffRRSCopy := rrs.Copy() followed by the
\* RRsets of b, then result := diffRRSCopy.Difference(rrs).
DiffAppended ==
    /\ op = "none"
    /\ op' = "DiffAppended"
    /\ result' \in RRsetsDifference(RRsetsCopy(rrs) \o b, rrs)
    /\ UNCHANGED <<toolchain, rrs, b, ok, mapped, rrsetVars, zoneVars, clientVars>>

\* result := rrs.Merge(rrs); ok := result.Equals(rrs).  The scenario reads
\* the receiver only, so it is taken once per receiver (with b empty).
MergeSelf ==
    /\ op = "none"
    /\ b = <<>>
    /\ op' = "MergeSelf"
    /\ \E m \in RRsetsMerge(rrs, rrs) :
          /\ result' = m
          /\ ok' \in RRsetsEquals(m, rrs)
    /\ UNCHANGED <<toolchain, rrs, b, mapped, rrsetVars, zoneVars, clientVars>>

\* result := rrs.Copy(); ok := rrs.Equals(result).  The scenario of TestRRSets
\* reads the receiver only, so it is taken once per receiver (with b empty).
Copy ==
    /\ op = "none"
    /\ b = <<>>
    /\ op' = "Copy"
    /\ result' = RRsetsCopy(rrs)
    /\ ok' \in RRsetsEquals(rrs, RRsetsCopy(rrs))
    /\ UNCHANGED <<toolchain, rrs, b, mapped, rrsetVars, zoneVars, clientVars>>

Next ==
    \/ ToMap
    \/ Difference
    \/ IsSubsetOf
    \/ Intersection
    \/ Merge
    \/ DiffAppended
    \/ MergeSelf
    \/ Copy

Spec == Init /\ [][Next]_vars

\* ToMap alone, on every receiver: it has no argument.
InitReceiver ==
    /\ rrs \in SeqsUpTo(RRsetValues, MaxRRsets)
    /\ b = <<>>
    /\ op = "none"
    /\ result = <<>>
    /\ ok = FALSE
    /\ mapped = EmptyMap
    /\ NoRRset
    /\ NoZones
    /\ NoClient

SpecToMap == InitReceiver /\ [][ToMap]_vars

\* prrs := NewPatchRRSets(rrs, c); rtrrs := prrs.CopyToRRSets();
\* ok := rrs.Equals(rtrrs)
PatchRoundTrip ==
    /\ op = "none"
    /\ op' = "PatchRoundTrip"
    /\ \E c \in {"REPLACE", "DELETE"} :
          LET prrs == NewPatchRRSets(rrs, c)
              rtrrs == CopyToRRSets(prrs)
          IN  /\ result' = <<[changetype |-> c, prrs |-> prrs, rtrrs |-> rtrrs]>>
              /\ ok' \in RRsetsEquals(rrs, rtrrs)
    /\ UNCHANGED <<toolchain, rrs, b, mapped, rrsetVars, zoneVars, clientVars>>

\* The collections patched: RRsets of one TTL, with and without a change
\* type of their own.
InitPatch ==
    /\ rrs \in SeqsUpTo({x \in RRsetValues : x.TTL = 300}, MaxRRsets)
    /\ b = <<>>
    /\ NoResult
    /\ NoRRset
    /\ NoZones
    /\ NoClient

SpecPatch == InitPatch /\ [][PatchRoundTrip]_vars

\* result := rrs.Difference(rrs); ok := rrs.IsSubsetOf(rrs)
DifferenceSelf ==
    /\ op = "none"
    /\ op' = "DifferenceSelf"
    /\ result' \in RRsetsDifference(rrs, rrs)
    /\ ok' \in RRsetsIsSubsetOf(rrs, rrs)
    /\ UNCHANGED <<toolchain, rrs, b, mapped, rrsetVars, zoneVars, clientVars>>

SpecSelf == InitReceiver /\ [][DifferenceSelf]_vars

----------------------------------------------------------------------------
\* The scenarios on one RRset rr and an argument brr: the operations of their
\* Records, RRset.Merge, and the copies.

\* Longest Records slice of rr and brr.
MaxLen == 3

\* The record values of rr and brr: as RecordValues, and a disabled record
\* with the content of an enabled one.
RRsetRecordValues ==
    RecordValues \cup {[Content |-> "1.2.3.4", Disabled |-> TRUE, SetPtr |-> FALSE]}

\* rr and brr have the same name, type, ttl and changeType, or differ in all.
RRsetInputs ==
    {[Name |-> h.Name, Type |-> h.Type, TTL |-> h.TTL, Records |-> r,
      ChangeType |-> h.ChangeType] :
        h \in {[Name |-> "www.example.com.", Type |-> "A", TTL |-> 300,
                ChangeType |-> ""],
               [Name |-> "mail.example.com.", Type |-> "AAAA", TTL |-> 600,
                ChangeType |-> "REPLACE"]},
        r \in SeqsUpTo(RRsetRecordValues, MaxLen)}

InitRRset ==
    /\ toolchain \in {"go1.17", "go1.21", "go1.22"}
    /\ rr \in RRsetInputs
    /\ brr \in RRsetInputs
    /\ heap = <<>>
    /\ NoResult
    /\ NoRRsets
    /\ NoZones
    /\ NoClient

\* result := rr.Records.Difference(brr.Records)
DoRecordsDifference ==
    /\ op = "none"
    /\ op' = "RecordsDifference"
    /\ result' \in RecordsDifference(rr.Records, brr.Records)
    /\ UNCHANGED <<toolchain, rrs, b, ok, mapped, rrsetVars, zoneVars, clientVars>>

\* result := rr.Records.Union(brr.Records)
DoRecordsUnion ==
    /\ op = "none"
    /\ op' = "RecordsUnion"
    /\ result' \in RecordsUnion(rr.Records, brr.Records)
    /\ UNCHANGED <<toolchain, rrs, b, ok, mapped, rrsetVars, zoneVars, clientVars>>

\* result := rr.Records.Intersection(brr.Records)
DoRecordsIntersection ==
    /\ op = "none"
    /\ op' = "RecordsIntersection"
    /\ result' \in RecordsIntersection(rr.Records, brr.Records)
    /\ UNCHANGED <<toolchain, rrs, b, ok, mapped, rrsetVars, zoneVars, clientVars>>

\* result := <<rr.Merge(brr)>>
DoRRsetMerge ==
    /\ op = "none"
    /\ op' = "RRsetMerge"
    /\ \E m \in RRsetMerge(rr, brr) : result' = <<m>>
    /\ UNCHANGED <<toolchain, rrs, b, ok, mapped, rrsetVars, zoneVars, clientVars>>

\* result := rr.Records.Copy(); ok := result.Equals(rr.Records).  The copy
\* scenarios read the receiver only, so they are taken once per receiver
\* (with brr = rr).
DoRecordsCopy ==
    /\ op = "none"
    /\ brr = rr
    /\ op' = "RecordsCopy"
    /\ result' = RecordsCopy(rr.Records)
    /\ ok' \in RecordsEquals(RecordsCopy(rr.Records), rr.Records)
    /\ UNCHANGED <<toolchain, rrs, b, mapped, rrsetVars, zoneVars, clientVars>>

\* recordsCopy := records.Copy(), then recordsCopy[idx].Content =
\* "edited record <idx>" for each idx of the copy: rr.Records is the first
\* array of the heap, heap' is the heap after the edits and result' the
\* slice recordsCopy.
RecordsCopyThenEdit ==
    /\ op = "none"
    /\ brr = rr
    /\ op' = "RecordsCopyThenEdit"
    /\ LET c == RecordsCopyOnHeap(<<rr.Records>>, SliceOf(1, Len(rr.Records)))
           edited == <<"edited record 0", "edited record 1", "edited record 2",
                       "edited record 3", "edited record 4", "edited record 5",
                       "edited record 6", "edited record 7", "edited record 8",
                       "edited record 9", "edited record 10", "edited record 11">>
       IN  /\ heap' = [c.heap EXCEPT ![c.slice.array] =
                          [j \in DOMAIN @ |->
                              IF j <= c.slice.len
                              THEN [@[j] EXCEPT !.Content = edited[j]]
                              ELSE @[j]]]
           /\ result' = <<c.slice>>
    /\ UNCHANGED <<toolchain, rrs, b, ok, mapped, rr, brr, zoneVars, clientVars>>

\* copiedRRset := rrset.Copy(): rr.Records is the first array of the heap,
\* and result' is the copy, whose Records is a slice of heap'.
DoRRsetCopy ==
    /\ op = "none"
    /\ brr = rr
    /\ op' = "RRsetCopy"
    /\ LET x == [rr EXCEPT !.Records = SliceOf(1, Len(rr.Records))]
           c == RRsetCopyOnHeap(<<rr.Records>>, x)
       IN  /\ heap' = c.heap
           /\ result' = <<c.rrset>>
    /\ UNCHANGED <<toolchain, rrs, b, ok, mapped, rr, brr, zoneVars, clientVars>>

NextRRset ==
    \/ DoRecordsDifference
    \/ DoRecordsUnion
    \/ DoRecordsIntersection
    \/ DoRRsetMerge
    \/ DoRecordsCopy
    \/ RecordsCopyThenEdit
    \/ DoRRsetCopy

SpecRRset == InitRRset /\ [][NextRRset]_vars

----------------------------------------------------------------------------
\* The scenarios on two zones z and a.

ZoneNames == {"example.com.", "example.org."}
ZoneTypes == {"", "Zone"}
ZoneURLs == {"", "/api/v1/servers/localhost/zones/example.com."}
Serials == {0, 2018103101}

ZoneRRset(t, r) ==
    [Name |-> "www.example.com.", Type |-> t, TTL |-> 300, Records |-> r,
     ChangeType |-> ""]

\* The RRsets of the zones: none, one RRset, the same RRset with one more
\* (zero-valued) record, and two RRsets.
ZoneRRsets ==
    LET rec == [Content |-> "1.2.3.4", Disabled |-> FALSE, SetPtr |-> FALSE]
    IN  {<<>>,
         <<ZoneRRset("A", <<rec>>)>>,
         <<ZoneRRset("A", <<ZeroRecord, rec>>)>>,
         <<ZoneRRset("A", <<rec>>), ZoneRRset("AAAA", <<>>)>>}

SharedZones(names, types, urls, rrsets) ==
    {[Name |-> n, Type |-> t, URL |-> u, RRsets |-> r] :
        n \in names, t \in types, u \in urls, r \in rrsets}

\* The authoritative zones over the shared zones zs: two values per field.
AuthoritativeZones(zs) ==
    {[Zone |-> sz, Kind |-> k, DNSsec |-> d, SoaEdit |-> e, SoaEditAPI |-> ea,
      Account |-> acc] :
        sz \in zs, k \in {"Native", "Master"}, d \in BOOLEAN,
        e \in {"", "INCEPTION-INCREMENT"}, ea \in {"", "INCEPTION-INCREMENT"},
        acc \in {"", "admin"}}

ZoneResponses(zs, serials) ==
    {[Zone |-> az, Serial |-> sn, NotifiedSerial |-> nsn] :
        az \in zs, sn \in serials, nsn \in serials}

\* The receivers: two zones that differ in every header field, with each of
\* the RRsets.
AuthoritativeReceivers ==
    {zr \in ZoneResponses(AuthoritativeZones(SharedZones(ZoneNames, {""}, {""}, ZoneRRsets)), {0}) :
        \/ /\ zr.Zone.Zone.Name = "example.com."
           /\ zr.Zone.Kind = "Native"
           /\ ~zr.Zone.DNSsec
           /\ zr.Zone.SoaEdit = ""
           /\ zr.Zone.SoaEditAPI = ""
           /\ zr.Zone.Account = ""
        \/ /\ zr.Zone.Zone.Name = "example.org."
           /\ zr.Zone.Kind = "Master"
           /\ zr.Zone.DNSsec
           /\ zr.Zone.SoaEdit = "INCEPTION-INCREMENT"
           /\ zr.Zone.SoaEditAPI = "INCEPTION-INCREMENT"
           /\ zr.Zone.Account = "admin"}

InitAuthoritativeZone ==
    /\ z \in AuthoritativeReceivers
    /\ a \in ZoneResponses(AuthoritativeZones(
                SharedZones(ZoneNames, ZoneTypes, ZoneURLs, ZoneRRsets)), Serials)
    /\ NoResult
    /\ NoRRsets
    /\ NoRRset
    /\ NoClient

\* ok := z.HeaderEquals(a.Zone), on the Zone embedded in the response z.
DoAuthoritativeHeaderEquals ==
    /\ op = "none"
    /\ op' = "AuthoritativeHeaderEquals"
    /\ ok' = AuthoritativeZoneHeaderEquals(z.Zone, a.Zone)
    /\ UNCHANGED <<toolchain, rrs, b, result, mapped, rrsetVars, zoneVars, clientVars>>

\* ok := z.Equals(a.Zone)
DoAuthoritativeEquals ==
    /\ op = "none"
    /\ op' = "AuthoritativeEquals"
    /\ ok' \in AuthoritativeZoneEquals(z.Zone, a.Zone)
    /\ UNCHANGED <<toolchain, rrs, b, result, mapped, rrsetVars, zoneVars, clientVars>>

\* zCopy := z.Copy(), compared with z; z.Kind = KindMaster, and z compared
\* with zCopy again; then rrCopy := z.Copy() of the changed z with
\* rrCopy.RRsets = the RRsets of a, compared with z.  z is the Zone embedded
\* in the response; a field assigned in the copy is no field of z.
DoAuthoritativeCopy ==
    /\ op = "none"
    /\ op' = "AuthoritativeCopy"
    /\ LET zCopy == AuthoritativeZoneCopy(z.Zone)
           zMaster == [z.Zone EXCEPT !.Kind = "Master"]
           rrCopy == [AuthoritativeZoneCopy(zMaster) EXCEPT
                          !.Zone.RRsets = a.Zone.Zone.RRsets]
       IN  /\ z' = [z EXCEPT !.Zone = zMaster]
           /\ \E e1 \in AuthoritativeZoneEquals(z.Zone, zCopy),
                 e2 \in AuthoritativeZoneEquals(zMaster, zCopy),
                 e3 \in AuthoritativeZoneEquals(zMaster, rrCopy) :
                result' = <<[CopyHeaderEquals |-> AuthoritativeZoneHeaderEquals(z.Zone, zCopy),
                             CopyEquals |-> e1,
                             ModifiedHeaderEquals |-> AuthoritativeZoneHeaderEquals(zMaster, zCopy),
                             ModifiedEquals |-> e2,
                             EditedHeaderEquals |-> AuthoritativeZoneHeaderEquals(zMaster, rrCopy),
                             EditedEquals |-> e3,
                             Copy |-> zCopy]>>
    /\ UNCHANGED <<toolchain, rrs, b, ok, mapped, rrsetVars, a, clientVars>>

NextAuthoritativeZone ==
    \/ DoAuthoritativeHeaderEquals
    \/ DoAuthoritativeEquals
    \/ DoAuthoritativeCopy

SpecAuthoritativeZone == InitAuthoritativeZone /\ [][NextAuthoritativeZone]_vars

\* Longest list of servers of a recursor zone.
MaxServers == 2

\* The server lists: nil, and every allocated list of up to MaxServers
\* addresses (the empty one included).
ServerLists ==
    {NilStrings} \cup {Strings(l) : l \in SeqsUpTo({"8.8.8.8", "1.1.1.1"}, MaxServers)}

RecursorZones(zs) ==
    {[Zone |-> sz, Servers |-> l, RecursionDesired |-> rd] :
        sz \in zs, l \in ServerLists, rd \in BOOLEAN}

InitRecursorZone ==
    /\ z \in RecursorZones(SharedZones(ZoneNames, {""}, {""}, {<<>>}))
    /\ a \in RecursorZones(SharedZones(ZoneNames, ZoneTypes, ZoneURLs,
                                       {<<>>, <<ZoneRRset("A", <<>>)>>}))
    /\ NoResult
    /\ NoRRsets
    /\ NoRRset
    /\ NoClient

\* ok := z.HeaderEquals(a)
DoRecursorHeaderEquals ==
    /\ op = "none"
    /\ op' = "RecursorHeaderEquals"
    /\ ok' = RecursorZoneHeaderEquals(z, a)
    /\ UNCHANGED <<toolchain, rrs, b, result, mapped, rrsetVars, zoneVars, clientVars>>

SpecRecursorZone == InitRecursorZone /\ [][DoRecursorHeaderEquals]_vars

----------------------------------------------------------------------------
\* The operations applied to collections that lie on the heap: rrs and b
\* are the receiver and the argument as they were given, heap is the heap
\* the operation left, result holds what it returned.

\* The slices of the receiver and of the argument, as LayOut places them.
ReceiverSlice == SliceOf(Len(rrs) + 1, Len(rrs))
ArgumentSlice == SliceOf(Len(rrs) + 1 + Len(b) + 1, Len(b))

InitFrame ==
    /\ \E n \in 0..MaxRRsets, m \in 0..MaxRRsets :
          /\ n + m <= MaxTotalRRsets
          /\ rrs \in [1..n -> {x \in RRsetValues : x.TTL = 300 /\ x.ChangeType = ""}]
          /\ b \in [1..m -> {x \in RRsetValues : x.TTL = 300 /\ x.ChangeType = ""}]
    /\ heap = LayOut(LayOut(<<>>, rrs).heap, b).heap
    /\ toolchain \in {"go1.17", "go1.21", "go1.22"}
    /\ rr = ZeroRRset
    /\ brr = ZeroRRset
    /\ NoResult
    /\ NoZones
    /\ NoClient

\* Records.ToMap on the Records of the first RRset of the receiver.
FrameRecordsToMap ==
    /\ op = "none"
    /\ Len(rrs) >= 1
    /\ b = <<>>
    /\ heap' = heap
    /\ result' = <<RecordsToMap(ReadRecords(heap, heap[ReceiverSlice.array][1].Records))>>
    /\ op' = "Records.ToMap"
    /\ UNCHANGED <<toolchain, rrs, b, ok, mapped, rr, brr, zoneVars, clientVars>>

\* Records.Difference on the Records of the first RRset of the receiver and of the argument.
FrameRecordsDifference ==
    /\ op = "none"
    /\ Len(rrs) >= 1
    /\ Len(b) >= 1
    /\ \E st \in RecordsDifferenceOnHeap(heap, heap[ReceiverSlice.array][1].Records, heap[ArgumentSlice.array][1].Records) :
          /\ heap' = st.heap
          /\ result' = <<st.result>>
    /\ op' = "Records.Difference"
    /\ UNCHANGED <<toolchain, rrs, b, ok, mapped, rr, brr, zoneVars, clientVars>>

\* Records.Intersection on the Records of the first RRset of the receiver and of the argument.
FrameRecordsIntersection ==
    /\ op = "none"
    /\ Len(rrs) >= 1
    /\ Len(b) >= 1
    /\ \E st \in RecordsIntersectionOnHeap(heap, heap[ReceiverSlice.array][1].Records, heap[ArgumentSlice.array][1].Records) :
          /\ heap' = st.heap
          /\ result' = <<st.result>>
    /\ op' = "Records.Intersection"
    /\ UNCHANGED <<toolchain, rrs, b, ok, mapped, rr, brr, zoneVars, clientVars>>

\* Records.Union on the Records of the first RRset of the receiver and of the argument.
FrameRecordsUnion ==
    /\ op = "none"
    /\ Len(rrs) >= 1
    /\ Len(b) >= 1
    /\ \E st \in RecordsUnionOnHeap(heap, heap[ReceiverSlice.array][1].Records, heap[ArgumentSlice.array][1].Records) :
          /\ heap' = st.heap
          /\ result' = <<st.result>>
    /\ op' = "Records.Union"
    /\ UNCHANGED <<toolchain, rrs, b, ok, mapped, rr, brr, zoneVars, clientVars>>

\* Records.IsSubsetOf (len(r.Difference(b)) == 0) on the Records of the first RRset of the receiver and of the argument.
FrameRecordsIsSubsetOf ==
    /\ op = "none"
    /\ Len(rrs) >= 1
    /\ Len(b) >= 1
    /\ \E st \in RecordsDifferenceOnHeap(heap, heap[ReceiverSlice.array][1].Records, heap[ArgumentSlice.array][1].Records) :
          /\ heap' = st.heap
          /\ result' = <<st.result.len = 0>>
    /\ op' = "Records.IsSubsetOf"
    /\ UNCHANGED <<toolchain, rrs, b, ok, mapped, rr, brr, zoneVars, clientVars>>

\* Records.Copy on the Records of the first RRset of the receiver.
FrameRecordsCopy ==
    /\ op = "none"
    /\ Len(rrs) >= 1
    /\ b = <<>>
    /\ LET st == RecordsCopyOnHeap(heap, heap[ReceiverSlice.array][1].Records)
       IN  /\ heap' = st.heap
           /\ result' = <<st.slice>>
    /\ op' = "Records.Copy"
    /\ UNCHANGED <<toolchain, rrs, b, ok, mapped, rr, brr, zoneVars, clientVars>>

\* RRset.Copy on the first RRset of the receiver.
FrameRRsetCopy ==
    /\ op = "none"
    /\ Len(rrs) >= 1
    /\ b = <<>>
    /\ LET st == RRsetCopyOnHeap(heap, heap[ReceiverSlice.array][1])
       IN  /\ heap' = st.heap
           /\ result' = <<st.rrset>>
    /\ op' = "RRset.Copy"
    /\ UNCHANGED <<toolchain, rrs, b, ok, mapped, rr, brr, zoneVars, clientVars>>

\* RRset.Merge on the first RRset of the receiver and of the argument.
FrameRRsetMerge ==
    /\ op = "none"
    /\ Len(rrs) >= 1
    /\ Len(b) >= 1
    /\ \E st \in RRsetMergeOnHeap(heap, heap[ReceiverSlice.array][1], heap[ArgumentSlice.array][1]) :
          /\ heap' = st.heap
          /\ result' = <<st.result>>
    /\ op' = "RRset.Merge"
    /\ UNCHANGED <<toolchain, rrs, b, ok, mapped, rr, brr, zoneVars, clientVars>>

\* RRsets.ToMap on the receiver.
FrameRRsetsToMap ==
    /\ op = "none"
    /\ b = <<>>
    /\ LET st == ToMapLoopOnHeap([heap |-> heap, result |-> EmptyMap], ReceiverSlice, 1)
       IN  /\ heap' = st.heap
           /\ result' = <<st.result>>
    /\ op' = "RRsets.ToMap"
    /\ UNCHANGED <<toolchain, rrs, b, ok, mapped, rr, brr, zoneVars, clientVars>>

\* RRsets.Difference on the receiver and the argument.
FrameRRsetsDifference ==
    /\ op = "none"
    /\ \E st \in RRsetsDifferenceOnHeap(heap, ReceiverSlice, ArgumentSlice) :
          /\ heap' = st.heap
          /\ result' = <<st.result>>
    /\ op' = "RRsets.Difference"
    /\ UNCHANGED <<toolchain, rrs, b, ok, mapped, rr, brr, zoneVars, clientVars>>

\* RRsets.Intersection on the receiver and the argument.
FrameRRsetsIntersection ==
    /\ op = "none"
    /\ \E st \in RRsetsIntersectionOnHeap(heap, ReceiverSlice, ArgumentSlice) :
          /\ heap' = st.heap
          /\ result' = <<st.result>>
    /\ op' = "RRsets.Intersection"
    /\ UNCHANGED <<toolchain, rrs, b, ok, mapped, rr, brr, zoneVars, clientVars>>

\* RRsets.Merge on the receiver and the argument.
FrameRRsetsMerge ==
    /\ op = "none"
    /\ \E st \in RRsetsMergeOnHeap(heap, ReceiverSlice, ArgumentSlice) :
          /\ heap' = st.heap
          /\ result' = <<st.result>>
    /\ op' = "RRsets.Merge"
    /\ UNCHANGED <<toolchain, rrs, b, ok, mapped, rr, brr, zoneVars, clientVars>>

\* RRsets.IsSubsetOf (len(rrs.Difference(b)) == 0) on the receiver and the argument.
FrameRRsetsIsSubsetOf ==
    /\ op = "none"
    /\ \E st \in RRsetsDifferenceOnHeap(heap, ReceiverSlice, ArgumentSlice) :
          /\ heap' = st.heap
          /\ result' = <<st.result.len = 0>>
    /\ op' = "RRsets.IsSubsetOf"
    /\ UNCHANGED <<toolchain, rrs, b, ok, mapped, rr, brr, zoneVars, clientVars>>

\* RRsets.Copy on the receiver.
FrameRRsetsCopy ==
    /\ op = "none"
    /\ b = <<>>
    /\ \E st \in RRsetsCopyOnHeap(heap, ReceiverSlice) :
          /\ heap' = st.heap
          /\ result' = <<st.result>>
    /\ op' = "RRsets.Copy"
    /\ UNCHANGED <<toolchain, rrs, b, ok, mapped, rr, brr, zoneVars, clientVars>>

NextFrame ==
    \/ FrameRecordsToMap
    \/ FrameRecordsDifference
    \/ FrameRecordsIntersection
    \/ FrameRecordsUnion
    \/ FrameRecordsIsSubsetOf
    \/ FrameRecordsCopy
    \/ FrameRRsetCopy
    \/ FrameRRsetMerge
    \/ FrameRRsetsToMap
    \/ FrameRRsetsDifference
    \/ FrameRRsetsIntersection
    \/ FrameRRsetsMerge
    \/ FrameRRsetsIsSubsetOf
    \/ FrameRRsetsCopy

SpecFrame == InitFrame /\ [][NextFrame]_vars

----------------------------------------------------------------------------
\* Calls of DoRequest.

\* The calls of the two clients.  The sub-path is a relative one, an
\* absolute one or a malformed one (the older client takes a parsed URL, so
\* never a malformed one); the method is empty, DELETE, or BAD METHOD, which
\* has a space, each as the list of its bytes; the request value may be one
\* JSON does not support.  The server is what the
\* HTTP client meets: the transport fails, or a response with a status and
\* a body arrives, whose reading may fail.
Calls ==
    {c \in [client : {"Client", "PowerDNSClient"},
            subPathStr : {"zones", "zones/example.com.", "http://example.org/zones",
                          "%zz"},
            method : {<<>>, <<68, 69, 76, 69, 84, 69>>,
                      <<66, 65, 68, 32, 77, 69, 84, 72, 79, 68>>},
            requestType : {"nil", "zone", "unsupported"},
            hasTarget : BOOLEAN,
            server : {NoCall.server} \cup
                     [Fails : {FALSE},
                      StatusCode : {100, 199, 200, 204, 299, 300, 302, 399, 400,
                                    404, 422, 500, 599, 600, 999},
                      Body : {"", "not json", "[]", "{}", "{\"error\": \"Not Found\"}",
                              "{\"error\": \"Conflict\", \"errors\": 7}",
                              "{\"name\": \"example.com.\", \"serial\": 2018103101}",
                              "{\"name\": \"example.com.\", \"serial\": \"x\"}"},
                      ReadFails : BOOLEAN]] :
        c.client = "PowerDNSClient" => ~ParseURL(c.subPathStr).Err}

InitDoRequest ==
    /\ rrs = <<>>
    /\ b = <<>>
    /\ NoResult
    /\ NoRRset
    /\ NoZones
    /\ call \in Calls
    /\ target \in {NilTarget, [Name |-> "old.example.", Serial |-> 7]}
    /\ err = NilError
    /\ sent = <<>>

\* Client.DoRequest is called and runs up to p.cli.Do: it returns early with
\* an error, or hands the request to the HTTP client and waits there.  The
\* target is passed when the call has one; result keeps the value it had
\* before the call, and op is the place the call is at.
SendRequest ==
    /\ op = "none"
    /\ call.client = "Client"
    /\ LET r == BuildRequest(call)
       IN  /\ err' = r.err
           /\ sent' = r.sent
           /\ op' = IF r.err = NilError THEN "Do" ELSE "DoRequest"
    /\ result' = <<target>>
    /\ UNCHANGED <<toolchain, rrs, b, ok, mapped, rrsetVars, zoneVars, call, target>>

\* p.cli.Do returns: with an error, which DoRequest wraps and returns, or
\* with a response, whose body DoRequest goes on to read.
DoReturns ==
    /\ op = "Do"
    /\ call.client = "Client"
    /\ IF call.server.Fails
       THEN /\ err' = Wrap(ErrClientRequestFailed, [Type |-> "external", Package |-> "net/http"])
            /\ op' = "DoRequest"
       ELSE /\ err' = err
            /\ op' = "ReadAll"
    /\ UNCHANGED <<toolchain, rrs, b, result, ok, mapped, rrsetVars, zoneVars, call, target, sent>>

\* ioutil.ReadAll returns, and DoRequest runs to its end.
ReadAllReturns ==
    /\ op = "ReadAll"
    /\ call.client = "Client"
    /\ LET r == IF call.server.ReadFails
                THEN [err |-> Wrap(ErrClientServerResponseUnreadable(call.server.Body),
                                   [Type |-> "external", Package |-> "io"]),
                      target |-> target]
                ELSE HandleResponse(call, target)
       IN  /\ err' = r.err
           /\ target' = r.target
    /\ op' = "DoRequest"
    /\ UNCHANGED <<toolchain, rrs, b, result, ok, mapped, rrsetVars, zoneVars, call, sent>>

\* The same three steps of PowerDNSClient.DoRequest.
PowerDNSClientSendRequest ==
    /\ op = "none"
    /\ call.client = "PowerDNSClient"
    /\ LET r == PowerDNSClientBuildRequest(call)
       IN  /\ err' = r.err
           /\ sent' = r.sent
           /\ op' = IF r.err = NilError THEN "Do" ELSE "DoRequest"
    /\ result' = <<target>>
    /\ UNCHANGED <<toolchain, rrs, b, ok, mapped, rrsetVars, zoneVars, call, target>>

PowerDNSClientDoReturns ==
    /\ op = "Do"
    /\ call.client = "PowerDNSClient"
    /\ IF call.server.Fails
       THEN /\ err' = Wrap(ErrClientRequestFailed, [Type |-> "external", Package |-> "net/http"])
            /\ op' = "DoRequest"
       ELSE /\ err' = err
            /\ op' = "ReadAll"
    /\ UNCHANGED <<toolchain, rrs, b, result, ok, mapped, rrsetVars, zoneVars, call, target, sent>>

PowerDNSClientReadAllReturns ==
    /\ op = "ReadAll"
    /\ call.client = "PowerDNSClient"
    /\ LET r == IF call.server.ReadFails
                THEN [err |-> Wrap([Type |-> "sentinel",
                                    Name |-> "ErrClientServerResponseUnreadable"],
                                   [Type |-> "external", Package |-> "io"]),
                      target |-> target]
                ELSE PowerDNSClientHandleResponse(call, target)
       IN  /\ err' = r.err
           /\ target' = r.target
    /\ op' = "DoRequest"
    /\ UNCHANGED <<toolchain, rrs, b, result, ok, mapped, rrsetVars, zoneVars, call, sent>>

NextDoRequest ==
    \/ SendRequest
    \/ DoReturns
    \/ ReadAllReturns
    \/ PowerDNSClientSendRequest
    \/ PowerDNSClientDoReturns
    \/ PowerDNSClientReadAllReturns

SpecDoRequest == InitDoRequest /\ [][NextDoRequest]_vars

----------------------------------------------------------------------------
\* Vocabulary of the properties.

\* The keys of a collection.
Keys(s) == {UniqueName(s[i]) : i \in 1..Len(s)}

\* The positions of a collection that hold the key k.
EntriesFor(s, k) == {i \in 1..Len(s) : UniqueName(s[i]) = k}

\* No two RRsets of the collection share a key.
DistinctKeys(s) == \A k \in Keys(s) : Cardinality(EntriesFor(s, k)) = 1

\* The first and the last RRset of s with the key k (k a key of s).
FirstWith(s, k) == s[CHOOSE i \in EntriesFor(s, k) : \A j \in EntriesFor(s, k) : i <= j]
LastWith(s, k) == s[CHOOSE i \in EntriesFor(s, k) : \A j \in EntriesFor(s, k) : j <= i]

\* The record values of an RRset.
RecordSet(x) == {x.Records[i] : i \in 1..Len(x.Records)}

SameHeader(x, y) == x.TTL = y.TTL /\ x.ChangeType = y.ChangeType

----------------------------------------------------------------------------
\* Properties.  In C1-C6 and C8-C10, A[k] is the RRset of A with the key k;
\* C1-C3, C5 and C8-C10 are stated for collections whose keys are pairwise
\* distinct, where A[k] is a single RRset.

C1_Qualifies(k) ==
    \/ k \notin Keys(b)
    \/ RecordSet(LastWith(rrs, k)) \ RecordSet(LastWith(b, k)) # {}
    \/ ~SameHeader(LastWith(rrs, k), LastWith(b, k))

\* C1: Difference(A, B) holds exactly one RRset for each key k of A that B
\* lacks, or whose A[k] has a record value absent from B[k], or whose A[k] and
\* B[k] differ in ttl or changeType; it holds no other RRset; and each RRset
\* it holds has the ttl, the changeType and the set of record values of A[k].
C1_DifferenceHoldsCopiesOfA ==
    (op = "Difference" /\ DistinctKeys(rrs) /\ DistinctKeys(b)) =>
        /\ \A k \in Keys(rrs) :
              Cardinality(EntriesFor(result, k)) = IF C1_Qualifies(k) THEN 1 ELSE 0
        /\ \A i \in 1..Len(result) : UniqueName(result[i]) \in Keys(rrs)
        /\ \A i \in 1..Len(result) :
              /\ SameHeader(result[i], LastWith(rrs, UniqueName(result[i])))
              /\ RecordSet(result[i]) = RecordSet(LastWith(rrs, UniqueName(result[i])))

\* C2: when A and B both hold the key k and A[k] has record values absent from
\* B[k], the RRset for k in Difference(A, B) carries exactly the records of
\* A[k] that are missing from B[k].
C2_DifferenceCarriesMissingRecordsOnly ==
    (op = "Difference" /\ DistinctKeys(rrs) /\ DistinctKeys(b)) =>
        \A i \in 1..Len(result) :
            LET k == UniqueName(result[i])
            IN  (k \in Keys(rrs) /\ k \in Keys(b)
                 /\ RecordSet(LastWith(rrs, k)) \ RecordSet(LastWith(b, k)) # {})
                => RecordSet(result[i])
                     = RecordSet(LastWith(rrs, k)) \ RecordSet(LastWith(b, k))

\* C3: for every key k of both A and B with equal ttl and changeType,
\* Intersection(A, B) holds an RRset for k whose record values are exactly
\* those present in both A[k] and B[k].
C3_IntersectionHoldsCommonRecords ==
    (op = "Intersection" /\ DistinctKeys(rrs) /\ DistinctKeys(b)) =>
        \A k \in Keys(rrs) \cap Keys(b) :
            SameHeader(LastWith(rrs, k), LastWith(b, k)) =>
                \E i \in EntriesFor(result, k) :
                    RecordSet(result[i])
                      = RecordSet(LastWith(rrs, k)) \cap RecordSet(LastWith(b, k))

\* C4: Intersection(A, B) holds no RRset for a key that A or B lacks, nor for
\* a key whose RRsets in A and B differ in ttl or in changeType (A[k] being
\* the RRset a lookup of k finds: the last one with that key).
C4_IntersectionExcludesMismatch ==
    op = "Intersection" =>
        \A i \in 1..Len(result) :
            LET k == UniqueName(result[i])
            IN  /\ k \in Keys(rrs)
                /\ k \in Keys(b)
                /\ LastWith(rrs, k).TTL = LastWith(b, k).TTL
                /\ LastWith(rrs, k).ChangeType = LastWith(b, k).ChangeType

\* C4 witness: a key of both sides with a common record value and different
\* ttl, left out of the intersection.
C4_Witness ==
    /\ op = "Intersection"
    /\ result = <<>>
    /\ \E k \in Keys(rrs) \cap Keys(b) :
          /\ LastWith(rrs, k).TTL # LastWith(b, k).TTL
          /\ LastWith(rrs, k).ChangeType = LastWith(b, k).ChangeType
          /\ RecordSet(LastWith(rrs, k)) \cap RecordSet(LastWith(b, k)) # {}

\* C5: Merge(A, B) holds exactly one RRset per key of A or B and no other
\* entry; for a key of one side only the entry is that side's RRset; for a key
\* of both the entry has A's ttl and changeType and the union of the record
\* values of A[k] and B[k].
C5_MergeIsUnionOfKeys ==
    (op = "Merge" /\ DistinctKeys(rrs) /\ DistinctKeys(b)) =>
        /\ \A k \in Keys(rrs) \cup Keys(b) : Cardinality(EntriesFor(result, k)) = 1
        /\ \A i \in 1..Len(result) :
              LET k == UniqueName(result[i])
              IN  /\ k \in Keys(rrs) \cup Keys(b)
                  /\ (k \in Keys(rrs) /\ k \notin Keys(b)) => result[i] = LastWith(rrs, k)
                  /\ (k \notin Keys(rrs) /\ k \in Keys(b)) => result[i] = LastWith(b, k)
                  /\ (k \in Keys(rrs) /\ k \in Keys(b)) =>
                        /\ SameHeader(result[i], LastWith(rrs, k))
                        /\ RecordSet(result[i])
                             = RecordSet(LastWith(rrs, k)) \cup RecordSet(LastWith(b, k))

\* C6: R.Merge(R).Equals(R) is true for every collection R.
C6_MergeSelfEquals == op = "MergeSelf" => ok

\* C7: with two or more RRsets of one key in a collection, ToMap maps the key
\* to the copy of the first of them in collection order (the copy being what
\* RRset.Copy returns for it); a later RRset never overwrites an earlier one.
C7_ToMapFirstSeenWins ==
    (op = "ToMap" /\ ~DistinctKeys(rrs)) =>
        \A k \in Keys(rrs) :
            k \in DOMAIN mapped /\ mapped[k] = RRsetCopy(FirstWith(rrs, k))

\* R is inside S: every RRset of R has its key in S with the same header, and
\* S[k] holds all the record values of R[k].
C8_Inside(R, S) ==
    \A i \in 1..Len(R) :
        LET k == UniqueName(R[i])
        IN  /\ k \in Keys(S)
            /\ SameHeader(R[i], LastWith(S, k))
            /\ RecordSet(R[i]) \subseteq RecordSet(LastWith(S, k))

\* S holds a key, or under a common key a record value, that R lacks.
C8_HasExtra(S, R) ==
    \/ Keys(S) \ Keys(R) # {}
    \/ \E k \in Keys(S) \cap Keys(R) :
          RecordSet(LastWith(S, k)) \ RecordSet(LastWith(R, k)) # {}

\* C8: when R is inside S, R.IsSubsetOf(S) is true, and S.IsSubsetOf(R) is
\* false whenever S holds a key or a record value that R lacks.
C8_SubsetOfSuperset ==
    (op = "IsSubsetOf" /\ DistinctKeys(rrs) /\ DistinctKeys(b)) =>
        /\ C8_Inside(rrs, b) => ok
        /\ (C8_Inside(b, rrs) /\ C8_HasExtra(rrs, b)) => ~ok

\* C9: IsSubsetOf(A, B) is false whenever a key of both has different record
\* sets in A and B, also when the records of A[k] are among those of B[k].
C9_SubsetFalseOnRecordDifference ==
    (op = "IsSubsetOf" /\ DistinctKeys(rrs) /\ DistinctKeys(b)) =>
        ((\E k \in Keys(rrs) \cap Keys(b) :
              RecordSet(LastWith(rrs, k)) # RecordSet(LastWith(b, k)))
         => ~ok)

\* C10: for A and E with pairwise distinct and disjoint keys, the difference
\* of (A.Copy() followed by E) and A has len(E) entries, each with a key of E.
C10_DifferenceOfAppended ==
    (op = "DiffAppended" /\ DistinctKeys(rrs) /\ DistinctKeys(b)
     /\ Keys(rrs) \cap Keys(b) = {}) =>
        /\ Len(result) = Len(b)
        /\ \A i \in 1..Len(result) : UniqueName(result[i]) \in Keys(b)

----------------------------------------------------------------------------
\* Properties of RRsets.Copy, of Records and of one RRset.

\* The values of a slice, and a slice that holds no value twice.
ValueSet(s) == {s[i] : i \in 1..Len(s)}
NoDuplicates(s) == \A i, j \in 1..Len(s) : s[i] = s[j] => i = j

\* C11: R.Copy() is element for element identical to R (same length, and at
\* each index the same name, type, ttl, changeType and sequence of records),
\* and R.Equals(R.Copy()) is true.
C11_CopyIsIdentical == op = "Copy" => (result = rrs /\ ok)

\* C12: Records.Difference(A, B) holds every record value that occurs in A
\* and not in B, each exactly once, and no other value, also when A or B
\* hold a value twice or are empty.
C12_RecordsDifference ==
    op = "RecordsDifference" =>
        /\ NoDuplicates(result)
        /\ ValueSet(result) = ValueSet(rr.Records) \ ValueSet(brr.Records)

\* C12 witness: A holds one value twice that B lacks and a value of B; the
\* difference is the one value, once.
C12_Witness ==
    /\ op = "RecordsDifference"
    /\ Len(rr.Records) = 3
    /\ rr.Records[1] = rr.Records[2]
    /\ rr.Records[1] \notin ValueSet(brr.Records)
    /\ rr.Records[3] \in ValueSet(brr.Records)
    /\ result = <<rr.Records[1]>>

\* C13: Records.Union(A, B) holds every record value that occurs in A or in
\* B, each exactly once, and no other value; when every value of A is in B
\* it holds the values of B.
C13_RecordsUnion ==
    op = "RecordsUnion" =>
        /\ NoDuplicates(result)
        /\ ValueSet(result) = ValueSet(rr.Records) \cup ValueSet(brr.Records)
        /\ ValueSet(rr.Records) \subseteq ValueSet(brr.Records)
              => ValueSet(result) = ValueSet(brr.Records)

\* C13 witness: A holds one value of B twice, B holds two values; the union
\* has the two values of B.
C13_Witness ==
    /\ op = "RecordsUnion"
    /\ Len(rr.Records) = 2
    /\ rr.Records[1] = rr.Records[2]
    /\ Cardinality(ValueSet(brr.Records)) = 2
    /\ rr.Records[1] \in ValueSet(brr.Records)
    /\ Len(result) = 2

\* C14: Records.Intersection(A, B) holds exactly the record values that
\* occur in both A and B, each once; when every value of B is in A it
\* holds the values of B.
C14_RecordsIntersection ==
    op = "RecordsIntersection" =>
        /\ NoDuplicates(result)
        /\ ValueSet(result) = ValueSet(rr.Records) \cap ValueSet(brr.Records)
        /\ ValueSet(brr.Records) \subseteq ValueSet(rr.Records)
              => ValueSet(result) = ValueSet(brr.Records)

\* C14 witness: the receiver holds a value of the argument twice and a value
\* the argument lacks; the intersection is the common value, once.
C14_Witness ==
    /\ op = "RecordsIntersection"
    /\ Len(rr.Records) = 3
    /\ rr.Records[1] = rr.Records[2]
    /\ rr.Records[1] \in ValueSet(brr.Records)
    /\ rr.Records[3] \notin ValueSet(brr.Records)
    /\ ValueSet(brr.Records) \subseteq ValueSet(rr.Records)
    /\ result = <<rr.Records[1]>>

\* C15: A.Copy().Equals(A) is true, and A.Copy() has the same length and the
\* same records in the same order as A.
C15_RecordsCopyEquals == op = "RecordsCopy" => (ok /\ result = rr.Records)

\* The value an overwrite gives the field f of the record v: another
\* content, or the other truth value.
EditedField(v, f) == IF f = "Content" THEN "edited record" ELSE ~v[f]

\* The slice of the copy made by Records.Copy or RRset.Copy.
CopiedRecords == IF op = "RRsetCopy" THEN result[1].Records ELSE result[1]

\* C16: the value Records.Copy and RRset.Copy return shares no storage with
\* the original: the original Records hold exactly their previous elements
\* after the content of every element of the copy was overwritten, and
\* after any field of any element of the copy is overwritten.
C16_CopySharesNoStorage ==
    op \in {"RecordsCopyThenEdit", "RRsetCopy"} =>
        /\ ReadSlice(heap, SliceOf(1, Len(rr.Records))) = rr.Records
        /\ \A i \in 1..CopiedRecords.len, f \in {"Content", "Disabled", "SetPtr"} :
              ReadSlice(SetField(heap, CopiedRecords, i, f,
                                 EditedField(heap[CopiedRecords.array][i], f)),
                        SliceOf(1, Len(rr.Records))) = rr.Records

\* C16 witness: the content of every record of the copy of three records
\* was overwritten (the copy has six), and the records of the original have
\* their contents.
C16_Witness ==
    /\ op = "RecordsCopyThenEdit"
    /\ Len(rr.Records) = 3
    /\ ReadSlice(heap, CopiedRecords)[6].Content = "edited record 5"
    /\ \A i \in 1..3 : /\ rr.Records[i].Content \in {"1.2.3.4", "5.6.7.8"}
                        /\ heap[1][i].Content = rr.Records[i].Content

\* C17: RRset.Merge(a, b) has the name, type, ttl and changeType of a, and
\* its Records hold the record values of a.Records or b.Records, each once,
\* also when the keys of a and b differ.
C17_RRsetMerge ==
    op = "RRsetMerge" =>
        /\ Len(result) = 1
        /\ result[1].Name = rr.Name
        /\ result[1].Type = rr.Type
        /\ result[1].TTL = rr.TTL
        /\ result[1].ChangeType = rr.ChangeType
        /\ NoDuplicates(result[1].Records)
        /\ ValueSet(result[1].Records)
             = ValueSet(rr.Records) \cup ValueSet(brr.Records)

\* C17 witness: a and b differ in name, type, ttl and changeType and each
\* holds a record value the other lacks.
C17_Witness ==
    /\ op = "RRsetMerge"
    /\ UniqueName(rr) # UniqueName(brr)
    /\ rr.TTL # brr.TTL
    /\ rr.ChangeType # brr.ChangeType
    /\ ValueSet(rr.Records) \ ValueSet(brr.Records) # {}
    /\ ValueSet(brr.Records) \ ValueSet(rr.Records) # {}
    /\ Len(result[1].Records) = 3

----------------------------------------------------------------------------
\* Properties of the zones.

\* The six header fields of two authoritative zones are equal.
SameAuthoritativeHeader(x, y) ==
    /\ x.Zone.Name = y.Zone.Name
    /\ x.Kind = y.Kind
    /\ x.DNSsec = y.DNSsec
    /\ x.SoaEdit = y.SoaEdit
    /\ x.SoaEditAPI = y.SoaEditAPI
    /\ x.Account = y.Account

\* C18: HeaderEquals on authoritative zones is true if and only if name,
\* kind, dnssec, soaEdit, soaEditApi and account are all equal, whatever the
\* RRsets, type, url, serial and notifiedSerial are.
C18_AuthoritativeHeaderEquals ==
    op = "AuthoritativeHeaderEquals" => (ok <=> SameAuthoritativeHeader(z.Zone, a.Zone))

\* C18 witness: HeaderEquals is true on two zones that differ in RRsets,
\* type, url, serial and notifiedSerial.
C18_Witness ==
    /\ op = "AuthoritativeHeaderEquals"
    /\ ok
    /\ z.Zone.Zone.RRsets # a.Zone.Zone.RRsets
    /\ z.Zone.Zone.Type # a.Zone.Zone.Type
    /\ z.Zone.Zone.URL # a.Zone.Zone.URL
    /\ z.Serial # a.Serial
    /\ z.NotifiedSerial # a.NotifiedSerial

\* C19: HeaderEquals on recursor zones is true if and only if the names are
\* equal, recursionDesired is equal and servers is the same sequence of
\* strings, a nil list and an allocated empty one both being the empty
\* sequence; whatever the RRsets, type and url are.
C19_RecursorHeaderEquals ==
    op = "RecursorHeaderEquals" =>
        (ok <=> /\ z.Zone.Name = a.Zone.Name
                /\ z.RecursionDesired = a.RecursionDesired
                /\ z.Servers.Elems = a.Servers.Elems)

\* C20: Equals on authoritative zones is true if and only if HeaderEquals is
\* true and RRsets.Difference of the RRsets of the two zones is empty in both
\* directions; two zones that differ only in url, type, serial or
\* notifiedSerial are Equal.
C20_AuthoritativeEquals ==
    op = "AuthoritativeEquals" =>
        /\ ok <=> /\ SameAuthoritativeHeader(z.Zone, a.Zone)
                  /\ \A d \in RRsetsDifference(z.Zone.Zone.RRsets, a.Zone.Zone.RRsets) :
                        d = <<>>
                  /\ \A d \in RRsetsDifference(a.Zone.Zone.RRsets, z.Zone.Zone.RRsets) :
                        d = <<>>
        /\ (SameAuthoritativeHeader(z.Zone, a.Zone)
             /\ z.Zone.Zone.RRsets = a.Zone.Zone.RRsets) => ok

\* C20 witness: two zones with RRsets that differ in url, type, serial and
\* notifiedSerial only, and are Equal.
C20_Witness ==
    /\ op = "AuthoritativeEquals"
    /\ ok
    /\ Len(z.Zone.Zone.RRsets) = 2
    /\ z.Zone.Zone.RRsets = a.Zone.Zone.RRsets
    /\ z.Zone.Zone.Type # a.Zone.Zone.Type
    /\ z.Zone.Zone.URL # a.Zone.Zone.URL
    /\ z.Serial # a.Serial
    /\ z.NotifiedSerial # a.NotifiedSerial

----------------------------------------------------------------------------
\* Zone copies, patches, the frame of the operations and the client.

\* The content of a collection: for each key (name and type), the TTL, the
\* change type and the set of records of its RRsets.
Content(s) ==
    {[Name |-> s[i].Name, Type |-> s[i].Type, TTL |-> s[i].TTL,
      ChangeType |-> s[i].ChangeType, Records |-> ValueSet(s[i].Records)] :
        i \in 1..Len(s)}

\* C21: a copy of a zone is HeaderEquals and Equals to the zone; a copy whose
\* RRsets were replaced by RRsets of another content is still HeaderEquals
\* and no longer Equals.
C21_CopyEqualsUntilEdited ==
    op = "AuthoritativeCopy" =>
        /\ result[1].CopyHeaderEquals
        /\ result[1].CopyEquals
        /\ Content(a.Zone.Zone.RRsets) # Content(z.Zone.Zone.RRsets) =>
                result[1].EditedHeaderEquals /\ ~result[1].EditedEquals

\* C22: the round trip of a collection through NewPatchRRSets and
\* CopyToRRSets is Equal to the collection; the patch has one entry for each
\* RRset, in the order of the collection (the same name, type and TTL at
\* each position), and each entry has the change type given.
C22_PatchRoundTrip ==
    op = "PatchRoundTrip" =>
        LET prrs == result[1].prrs
        IN  /\ ok
            /\ Len(prrs) = Len(rrs)
            /\ \A i \in 1..Len(prrs) :
                  /\ UniqueName(prrs[i].RRset) = UniqueName(rrs[i])
                  /\ prrs[i].RRset.TTL = rrs[i].TTL
                  /\ ValueSet(rrs[i].Records) \subseteq ValueSet(prrs[i].RRset.Records)
                  /\ prrs[i].ChangeType = result[1].changetype

\* A collection of two RRsets with different keys and records was patched
\* for deletion.
C22_Witness ==
    /\ op = "PatchRoundTrip"
    /\ Len(rrs) = 2
    /\ UniqueName(rrs[1]) # UniqueName(rrs[2])
    /\ rrs[1].Records # <<>>
    /\ rrs[1].ChangeType = "REPLACE"
    /\ result[1].changetype = "DELETE"
    /\ Len(result[1].prrs) = 2
    /\ ok

\* C23: after each of the operations the receiver and the argument have the
\* length, the order and the element values (the Records of each RRset
\* included) they had before the call.
C23_InputsUnchanged ==
    op \in {"Records.ToMap", "Records.Difference", "Records.Intersection",
            "Records.Union", "Records.IsSubsetOf", "Records.Copy", "RRset.Copy",
            "RRset.Merge", "RRsets.ToMap", "RRsets.Difference",
            "RRsets.Intersection", "RRsets.Merge", "RRsets.IsSubsetOf",
            "RRsets.Copy"} =>
        /\ ReadRRsets(heap, ReceiverSlice) = rrs
        /\ ReadRRsets(heap, ArgumentSlice) = b

\* Merge returned the four entries it makes of a receiver of one RRset and
\* an argument of two, with records on both sides and one key in common.
C23_Witness ==
    /\ op = "RRsets.Merge"
    /\ Len(rrs) = 1
    /\ Len(b) = 2
    /\ rrs[1].Records # <<>>
    /\ b[1].Records # <<>>
    /\ UniqueName(b[1]) = UniqueName(rrs[1])
    /\ UniqueName(b[2]) # UniqueName(rrs[1])
    /\ Len(heap) > Len(rrs) + Len(b) + 2
    /\ result[1].len = 4

\* The call was made, its request was sent and a response arrived; and the
\* body of the response was read to its end.
Answered == op = "DoRequest" /\ sent # <<>> /\ ~call.server.Fails
BodyRead == Answered /\ ~call.server.ReadFails

\* The error e is x, or wraps x, or is wrapped by x.
Carries(e, x) == e = x \/ (e.Type = "wrapped" /\ (e.Outer = x \/ e.Inner = x))

\* The body decodes into an error envelope, and the envelope it decodes to.
IsEnvelope(raw) == ~UnmarshalError(raw, SharedError("")).Err
Envelope(raw) == UnmarshalError(raw, SharedError("")).Value

\* C24: for a 4xx or 5xx status, a body that cannot be parsed as an error
\* envelope gives the response-unreadable error that carries the bytes of
\* the body, and a body that is an envelope gives the server-response error
\* that wraps the envelope.
C24_ErrorBodiesDistinguished ==
    (BodyRead /\ call.server.StatusCode \in 400..599) =>
        IF IsEnvelope(call.server.Body)
        THEN /\ Carries(err, ErrClientServerResponse)
             /\ Carries(err, Envelope(call.server.Body))
        ELSE Carries(err, ErrClientServerResponseUnreadable(call.server.Body))

\* The body decodes into the response target.
DecodesIntoTarget(raw) == ~UnmarshalZoneResponse(raw, NilTarget).Err

\* C25: for every response, DoRequest returns ErrClientServerUnknownStatus
\* for a status outside 200..599 and never for a status in 200..299 or
\* 400..599, returns an error for a status in 400..599, and returns nil for
\* a status in 200..299 when the body decodes into the target or there is no
\* target.
C25_StatusClasses ==
    Answered =>
        LET status == call.server.StatusCode
        IN  /\ status \notin 200..599 => err = ErrClientServerUnknownStatus
            /\ status \in (200..299) \cup (400..599) => err # ErrClientServerUnknownStatus
            /\ status \in 400..599 => err # NilError
            /\ (status \in 200..299
                    /\ (~call.hasTarget \/ DecodesIntoTarget(call.server.Body))) =>
                  err = NilError

\* C26: the Intersection of the receiver with the argument and the
\* Intersection of the argument with the receiver have the same keys and,
\* for each key, the same TTL, change type and set of record values.
C26_IntersectionCommutes ==
    op = "Intersection" =>
        \A other \in RRsetsIntersection(b, rrs) : Content(result) = Content(other)

\* C27: overwriting a field of any record of any RRset that Merge returned
\* leaves every record of the receiver and of the argument as it was.
C27_MergeSharesNoStorage ==
    op = "RRsets.Merge" =>
        \A i \in 1..result[1].len :
            LET x == heap[result[1].array][i]
            IN  \A j \in 1..x.Records.len :
                    LET edited == SetField(heap, x.Records, j, "Content", "5.6.7.8")
                    IN  /\ ReadRRsets(edited, ReceiverSlice) = rrs
                        /\ ReadRRsets(edited, ArgumentSlice) = b

\* The heap before the operation, and the slices of the Records of the
\* first RRset of the receiver and of the argument.
HeapBefore == LayOut(LayOut(<<>>, rrs).heap, b).heap
ReceiverRecords == HeapBefore[ReceiverSlice.array][1].Records
ArgumentRecords == HeapBefore[ArgumentSlice.array][1].Records

\* The sequences s and t hold the same elements the same number of times.
SameElements(s, t) ==
    /\ Len(s) = Len(t)
    /\ \A i \in 1..Len(s) :
          Cardinality({j \in 1..Len(s) : s[j] = s[i]})
              = Cardinality({j \in 1..Len(t) : t[j] = s[i]})

\* The RRsets of a collection, each with its header and the set of its
\* records.
Normal(s) ==
    [i \in 1..Len(s) |->
        [Name |-> s[i].Name, Type |-> s[i].Type, TTL |-> s[i].TTL,
         ChangeType |-> s[i].ChangeType, Records |-> ValueSet(s[i].Records)]]

\* Every Records and every collection the operation of the state may
\* return for its inputs, one for each order of iteration.
RecordsOutcomes ==
    LET sts == CASE op = "Records.Difference" ->
                        RecordsDifferenceOnHeap(HeapBefore, ReceiverRecords, ArgumentRecords)
                 [] op = "Records.Intersection" ->
                        RecordsIntersectionOnHeap(HeapBefore, ReceiverRecords, ArgumentRecords)
                 [] op = "Records.Union" ->
                        RecordsUnionOnHeap(HeapBefore, ReceiverRecords, ArgumentRecords)
    IN  {ReadRecords(st.heap, st.result) : st \in sts}

RRsetsOutcomes ==
    LET sts == CASE op = "RRsets.Difference" ->
                        RRsetsDifferenceOnHeap(HeapBefore, ReceiverSlice, ArgumentSlice)
                 [] op = "RRsets.Intersection" ->
                        RRsetsIntersectionOnHeap(HeapBefore, ReceiverSlice, ArgumentSlice)
                 [] op = "RRsets.Merge" ->
                        RRsetsMergeOnHeap(HeapBefore, ReceiverSlice, ArgumentSlice)
    IN  {ReadRRsets(st.heap, st.result) : st \in sts}

\* C28: what Records.Difference, Intersection and Union return holds the
\* same record values whatever the order of iteration, and what
\* RRsets.Difference, Intersection and Merge return holds the same RRsets
\* (header and set of records); only the order of the elements varies.
C28_ContentIndependentOfOrder ==
    /\ op \in {"Records.Difference", "Records.Intersection", "Records.Union"} =>
          \A other \in RecordsOutcomes :
              SameElements(other, ReadRecords(heap, result[1]))
    /\ op \in {"RRsets.Difference", "RRsets.Intersection", "RRsets.Merge"} =>
          \A other \in RRsetsOutcomes :
              SameElements(Normal(other), Normal(ReadRRsets(heap, result[1])))

\* Merge returned two RRsets with records that another order of iteration
\* returns in the other order.
C28_Witness ==
    /\ op = "RRsets.Merge"
    /\ Len(rrs) = 1
    /\ Len(b) = 1
    /\ rrs[1].Records # <<>>
    /\ b[1].Records # <<>>
    /\ \E other \in RRsetsOutcomes : other # ReadRRsets(heap, result[1])

\* C29: the Difference of a collection with itself is empty and the
\* collection is a subset of itself, whatever keys and records it holds.
C29_DifferenceSelfEmpty == op = "DifferenceSelf" => (result = <<>> /\ ok)

\* The collection holds two RRsets of one key with different TTLs, the
\* first with no records and the second with the same record twice.
C29_Witness ==
    /\ op = "DifferenceSelf"
    /\ Len(rrs) = 2
    /\ UniqueName(rrs[1]) = UniqueName(rrs[2])
    /\ rrs[1].TTL # rrs[2].TTL
    /\ rrs[1].Records = <<>>
    /\ Len(rrs[2].Records) = 2
    /\ rrs[2].Records[1] = rrs[2].Records[2]
    /\ result = <<>>
    /\ ok

\* The sub-path of the call parses to an absolute URI.
AbsoluteSubPath ==
    /\ op = "DoRequest"
    /\ ~ParseURL(call.subPathStr).Err
    /\ IsAbs(ParseURL(call.subPathStr))

\* The request was sent and the transport failed.
TransportFailed == op = "DoRequest" /\ sent # <<>> /\ call.server.Fails

\* C30: after an absolute sub-path, a transport failure or a response of a
\* status outside 200..299, DoRequest has returned an error and the target
\* holds what it held before the call; a status of 100..199 or 300..399
\* gives ErrClientServerUnknownStatus; for an absolute sub-path no request
\* was sent.
C30_TargetUnmodifiedOnError ==
    /\ (AbsoluteSubPath \/ TransportFailed
            \/ (BodyRead /\ call.server.StatusCode \notin 200..299)) =>
          (err # NilError /\ target = result[1])
    /\ (BodyRead /\ call.server.StatusCode \in (100..199) \cup (300..399)) =>
          err = ErrClientServerUnknownStatus
    /\ AbsoluteSubPath => (sent = <<>> /\ err = ErrClientRequestIsAbs)

\* A response of status 302 whose body would decode into the target was
\* read, for a call with a target that held a zone before.
C30_Witness ==
    /\ BodyRead
    /\ call.server.StatusCode = 302
    /\ call.hasTarget
    /\ DecodesIntoTarget(call.server.Body)
    /\ HasMember(ParseJSON(call.server.Body), "name", "string")
    /\ result[1].Name = "old.example."
    /\ target = result[1]
    /\ err = ErrClientServerUnknownStatus

====
